---- MODULE Spec2Model ----
(***************************************************************************)
(* Model of the checkpointed five-stage pipeline of audiosummarizer:       *)
(* summarize() in src/audiosummarizer/main.py and the stage processors     *)
(* AVFinder, AudioExtractor, OSSUploader, AudioTranscriber, TextSummarizer *)
(* in src/audiosummarizer/utils.py.                                         *)
(*                                                                         *)
(* A string held in an Item List is modelled by what it names: the path of *)
(* a source file, the path or URL of a numbered artifact, or "".  What an  *)
(* artifact was derived from (the index of a Discover item) is kept with   *)
(* the artifact, so that index stability can be stated.                    *)
(***************************************************************************)
EXTENDS Integers, Sequences, FiniteSets, TLC

\* Largest number of media files in the input directory.
MaxItems == 2

\* Largest number of URLs in a batch given to _transcribe_batch.
MaxBatch == 3

\* Largest number of characters of a checkpoint.txt left by something else
\* than _write_checkpoint.
MaxText == 2

\* Largest number of URLs transcribe_audio has to transcribe.
MaxUrls == 201

\* Largest num_processes of AudioTranscriber.
MaxProcesses == 3

\* max_batch_size of _split_urls_into_batches, utils.py line 1277.
max_batch_size == 100

\* Longest duration, in seconds, of a media file.
MaxDuration == 7

\* The tolerance of _check_audio_correct in seconds, utils.py line 586.
Tolerance == 5

\* Largest number of transcripts of a result, of sentences of a transcript,
\* and the latest begin_time of a sentence.
MaxTranscripts == 2
MaxSentences == 2
MaxTime == 1

\* The directories of the tree AVFinder scans; 1 is input_dir.
MaxDirs == 3
\* Symbolic links the system follows in one path before it fails with ELOOP.
MaxSymlinks == 2

\* The longest list of URLs tried with indices skipped before it.
MaxSparse == 4

\* The lines of a summary file before a link is added, the video paths and the
\* calls of add_video_link_to_md on one file.
MaxLines == 2
MaxVideos == 2
MaxCalls == 2

\* retry_count, the default of process_file, text_summarizer.py line 114.
retry_count == 3

\* The transcripts NNN.txt the standalone summarizer is given.
MaxFiles == 2
\* The calls of process_file that are followed.
MaxProcessed == 3

\* Step numbers, main.py lines 147-153.
STEP_INIT == 0
STEP_FIND_FILES == 1
STEP_EXTRACT_AUDIO == 2
STEP_UPLOAD_OSS == 3
STEP_TRANSCRIBE == 4
STEP_SUMMARIZE == 5
STEP_COMPLETE == 6

Slots == 1..MaxItems
Stages == STEP_FIND_FILES..STEP_SUMMARIZE

VARIABLES
    ckptFile,       \* checkpoint.txt: <<>> when absent, <<k>> when it holds k
    intermExists,   \* output_dir/intermediates exists
    files,          \* the Item List files: <<>> when absent, <<list>> otherwise
    audioArt,       \* intermediates/audios/00k.mp3: source it was extracted from, 0 absent
    audioBad,       \* the numbers k whose 00k.mp3 fails _check_audio_correct
    ossObj,         \* OSS object audios/00k: source of its content, 0 absent
    textArt,        \* intermediates/texts/00k.txt: source of its content, 0 absent
    summaryArt,     \* summaries/00k.md: [prov, link], prov 0 when absent
    inputDir,       \* the media files of the input directory, by type
    pc,             \* "idle", "seq", "running", "returned"
    step,           \* the stage the orchestrator is at (6: past the last stage)
    checkpoint,     \* the local variable checkpoint of summarize()
    audio_only,     \* parameter of the run
    exitStatus,     \* how the last run ended: "none", "0", "1", "killed",
                    \* "killed in stage" (while a stage processor was running)
    ok,             \* return value of the stage processor
    loaded,         \* the list the running stage read from its input file
    skipped_indices,\* indices the running stage classified as already done
    pending,        \* submitted tasks that have not completed
    results,        \* per-index results collected by the running stage
    failed_count,   \* self.failed_count of the running stage processor
    success_count,  \* self.success_count
    skipped_count,  \* self.skipped_count
    hist,           \* per stage, what this run did with it
    readCkpt,       \* the value _read_checkpoint returned at the start of this run
    hadInterm,      \* whether intermediates existed at the start of this run
    readText,       \* the text of checkpoint.txt at the start of this run
    call,           \* the arguments of the last call of summarize(): the keys of
                    \* config and whether input_dir is a directory
    batch_urls,     \* _transcribe_batch: the URLs submitted in one call
    response,       \* the transcriptions of the service not yet handled, in
                    \* the order the service returned them
    batch_results,  \* _transcribe_batch: the list results
    warnings,       \* _transcribe_batch: results placed by position, each
                    \* logged as a warning
    placed,         \* the indices of results that hold a result placed by
                    \* position
    num_processes,  \* AudioTranscriber.num_processes, 0 before the stage
    urls_to_transcribe, \* the URLs to split, by their position 1..n
    url_batches,    \* what _split_urls_into_batches returned
    filtered_urls,  \* the pairs <<original index, URL>> left to transcribe
    result_dict,    \* batch index -> the results of the batch
    running,        \* batches a worker of the pool is running
    completed,      \* batches whose future has completed
    worker,         \* one call of _extract_audio: the files it works on, its
                    \* position, what it did and what it returned
    artifact,       \* the prior text or summary file transcribe_audio or
                    \* summarize_texts looked at last
    result_data,    \* the JSON document of one transcription
    result_str,     \* what _format_transcription_result returned for it
    tree,           \* the directory tree AVFinder scans
    stack,          \* the calls of _scan_directory in progress, innermost last
    audio_files,    \* AVFinder.audio_files
    processed_dirs, \* AVFinder.processed_dirs
    md_file,        \* the content of one summary file add_video_links works on
    link_log,       \* the calls of add_video_link_to_md on it and what each left
    summary_file,   \* the output files NNN_summary.md of process_file, by
                    \* number: <<>> when absent
    proc            \* one call of process_file: its position, its attempts and
                    \* what it returned

vars == <<ckptFile, intermExists, files, audioArt, audioBad, ossObj, textArt,
          summaryArt, inputDir, pc, step, checkpoint, audio_only, exitStatus, ok,
          loaded, skipped_indices, pending, results, failed_count, success_count,
          skipped_count, hist, readCkpt,
          hadInterm, readText, call, batch_urls, response, batch_results,
          warnings, placed, num_processes, urls_to_transcribe, url_batches,
          filtered_urls, result_dict, running,
          completed, worker, artifact, result_data, result_str, tree, stack,
          audio_files, processed_dirs, md_file, link_log, summary_file, proc>>

disk == <<ckptFile, intermExists, files, audioArt, audioBad, ossObj, textArt,
          summaryArt, inputDir>>
arts == <<audioArt, audioBad, ossObj, textArt, summaryArt>>
stagevars == <<loaded, skipped_indices, pending, results, failed_count,
               success_count, skipped_count>>
runvars == <<audio_only, readCkpt, hadInterm, readText, call>>
\* What a run of summarize() reads and writes.
pipevars == <<disk, pc, step, checkpoint, exitStatus, ok, stagevars, hist, runvars>>
\* One call of _transcribe_batch, which runs in a worker of its own.
batchvars == <<batch_urls, response, batch_results, warnings, placed>>
\* The batches of transcribe_audio and the pool that runs them.
poolvars == <<num_processes, urls_to_transcribe, url_batches, filtered_urls,
              result_dict, running, completed>>
\* One item of a stage and the artifact a run before left for it.
itemvars == <<worker, artifact>>
\* One call of _format_transcription_result.
formatvars == <<result_data, result_str>>
\* One scan of AVFinder, directory by directory.
scanvars == <<tree, stack, audio_files, processed_dirs>>
\* The summary file add_video_links.py rewrites.
linkvars == <<md_file, link_log>>
\* One call of process_file of the standalone summarizer.
retryvars == <<summary_file, proc>>
toolvars == <<scanvars, linkvars, retryvars>>
\* What the steps of summarize() modelled as one step per task leave alone.
sidevars == <<batchvars, poolvars, itemvars, formatvars, toolvars>>

----------------------------------------------------------------------------
\* Item List entries.

Empty == [kind |-> "", n |-> 0]
Entry(kind, n) == [kind |-> kind, n |-> n]

FileNames == {"inputs", "audios", "oss_urls", "texts", "summaries"}

NoSummary == [prov |-> 0, link |-> 0]
NoResult == [val |-> Empty, prov |-> 0, link |-> 0]

\* The Discover item a value was derived from, 0 for "" or a missing artifact.
Prov(e) ==
    CASE e.kind = "src" -> e.n
      [] e.kind = "audio" -> audioArt[e.n]
      [] e.kind = "url" -> ossObj[e.n]
      [] e.kind = "text" -> textArt[e.n]
      [] e.kind = "md" -> summaryArt[e.n].prov
      [] OTHER -> 0

NonBlank(e) == e # Empty

\* The blank filter of the four _load_* methods.
FilterBlank(list) == SelectSeq(list, NonBlank)

\* An Item List file is <<>> when absent and <<list>> when it holds a JSON
\* list.  A file that holds something else is <<items, kind>>: "malformed"
\* when json.load raises, "object" for a JSON object or string, whose keys or
\* characters are the items a for loop over it yields, "number" for a value
\* that cannot be iterated.
JsonKind(name) == IF Len(files[name]) = 2 THEN files[name][2] ELSE "list"

FileList(name) == IF files[name] = <<>> THEN <<>> ELSE files[name][1]

----------------------------------------------------------------------------
\* Checkpoint tracker.

\* checkpoint.txt is its text, a sequence of characters: a digit is the number
\* 0..9, Blank a whitespace character and Junk any character int() rejects.
\* <<>> is the file that is absent or empty, which _read_checkpoint does not
\* tell apart.
Blank == 10
Junk == 11
Chars == 0..Junk

RECURSIVE lstrip(_)
lstrip(s) == IF s # <<>> /\ Head(s) = Blank THEN lstrip(Tail(s)) ELSE s

RECURSIVE rstrip(_)
rstrip(s) ==
    IF s # <<>> /\ s[Len(s)] = Blank THEN rstrip(SubSeq(s, 1, Len(s) - 1)) ELSE s

\* content.strip()
strip(s) == rstrip(lstrip(s))

\* int(content) raises ValueError unless content is a run of digits.
IsIntText(s) == s # <<>> /\ \A i \in 1..Len(s) : s[i] \in 0..9

RECURSIVE IntOf(_)
IntOf(s) == IF s = <<>> THEN 0 ELSE 10 * IntOf(SubSeq(s, 1, Len(s) - 1)) + s[Len(s)]

\* str(step)
RECURSIVE str(_)
str(n) == IF n < 10 THEN <<n>> ELSE str(n \div 10) \o <<n % 10>>

\* A bug: the first character is taken for the value.
_read_checkpoint_raw(f) == IF f = <<>> THEN 0 ELSE f[1]

_read_checkpoint(f) == IF IsIntText(strip(f)) THEN IntOf(strip(f)) ELSE 0

\* open(checkpoint_file, 'w'): the text written replaces the old one.
_write_checkpoint(s) == str(s)

\* A bug: the new step is computed one too high.
_update_checkpoint_by2(f) == _write_checkpoint(_read_checkpoint(f) + 2)

_update_checkpoint(f) == _write_checkpoint(_read_checkpoint(f) + 1)

Persisted == _read_checkpoint(ckptFile)

----------------------------------------------------------------------------
\* Wiring of the stages, summarize().

\* A bug: "<=" for "<", the stage the checkpoint names is run again.
ShouldRun_le(c, n) == c <= n

ShouldRun(c, n) == c < n

\* A bug: Upload is wired to inputs.json, the list ExtractAudio read.
InputJson_shifted(n) ==
    CASE n = STEP_EXTRACT_AUDIO -> "inputs"
      [] n = STEP_UPLOAD_OSS -> "inputs"
      [] n = STEP_TRANSCRIBE -> "oss_urls"
      [] n = STEP_SUMMARIZE -> "texts"

InputJson(n) ==
    CASE n = STEP_EXTRACT_AUDIO -> "inputs"
      [] n = STEP_UPLOAD_OSS -> "audios"
      [] n = STEP_TRANSCRIBE -> "oss_urls"
      [] n = STEP_SUMMARIZE -> "texts"

OutputJson(n) ==
    CASE n = STEP_FIND_FILES -> "inputs"
      [] n = STEP_EXTRACT_AUDIO -> "audios"
      [] n = STEP_UPLOAD_OSS -> "oss_urls"
      [] n = STEP_TRANSCRIBE -> "texts"
      [] n = STEP_SUMMARIZE -> "summaries"

NoHist == [n \in Stages |-> "none"]
NoResults == [k \in Slots |-> NoResult]

\* The keys of config the docstring of summarize() and the help of
\* --config-file list, main.py lines 34-43 and 165-173.
DocumentedKeys ==
    {"bucket_name", "bucket_endpoint", "access_key_id", "access_key_secret",
     "funasr_api_key", "deepseek_api_key", "ffmpeg_path", "ffprobe_path"}

\* The keys summarize() reads, lines 216-224.
ConfigKeysRead ==
    {"bucket_name", "bucket_endpoint", "aliyun_access_key_id",
     "aliyun_access_key_secret", "funasr_api_key", "deepseek_api_key",
     "ffmpeg_path", "ffprobe_path"}

\* config[key] raises KeyError for a key that is missing, lines 225-227.
ValidConfig(config) == ConfigKeysRead \subseteq config

\* The config dicts summarize() is called with, by their keys.
Configs == {DocumentedKeys, ConfigKeysRead}

NoCall == [config |-> {}, input_dir |-> FALSE]
NoBatch == <<>>
NoWorker == [pc |-> "idle"]
NoArtifact == [idx |-> 0]
NoData == [called |-> FALSE, transcripts |-> <<>>]
NoTree == [dirs |-> {}]
NoProc == [pc |-> "idle"]
NoSummaries == [num \in 1..MaxFiles |-> <<>>]

\* Nothing but summarize() has run.
InitSide ==
    /\ batch_urls = NoBatch
    /\ response = <<>>
    /\ batch_results = <<>>
    /\ warnings = 0
    /\ placed = {}
    /\ num_processes = 0
    /\ urls_to_transcribe = <<>>
    /\ url_batches = <<>>
    /\ filtered_urls = <<>>
    /\ result_dict = <<>>
    /\ running = {}
    /\ completed = {}
    /\ worker = NoWorker
    /\ artifact = NoArtifact
    /\ result_data = NoData
    /\ result_str = <<>>
    /\ tree = NoTree
    /\ stack = <<>>
    /\ audio_files = <<>>
    /\ processed_dirs = {}
    /\ md_file = <<>>
    /\ link_log = <<>>
    /\ summary_file = NoSummaries
    /\ proc = NoProc

Init ==
    /\ ckptFile = <<>>
    /\ intermExists = FALSE
    /\ files = [f \in FileNames |-> <<>>]
    /\ audioArt = [k \in Slots |-> 0]
    /\ audioBad = {}
    /\ ossObj = [k \in Slots |-> 0]
    /\ textArt = [k \in Slots |-> 0]
    /\ summaryArt = [k \in Slots |-> NoSummary]
    /\ inputDir \in UNION {[1..n -> {"audio", "video"}] : n \in 0..MaxItems}
    /\ pc = "idle"
    /\ step = 0
    /\ checkpoint = 0
    /\ audio_only = FALSE
    /\ exitStatus = "none"
    /\ ok = FALSE
    /\ loaded = <<>>
    /\ skipped_indices = {}
    /\ pending = {}
    /\ results = NoResults
    /\ failed_count = 0
    /\ success_count = 0
    /\ skipped_count = 0
    /\ hist = NoHist
    /\ readCkpt = 0
    /\ hadInterm = FALSE
    /\ readText = <<>>
    /\ call = NoCall
    /\ InitSide

----------------------------------------------------------------------------
\* summarize(): start of a run.

\* A run that ended leaves no process memory behind.
ClearStage ==
    /\ loaded' = <<>>
    /\ skipped_indices' = {}
    /\ pending' = {}
    /\ results' = NoResults
    /\ failed_count' = 0
    /\ success_count' = 0
    /\ skipped_count' = 0

\* Nor does it leave the local variables of summarize().
ClearRun ==
    /\ checkpoint' = 0
    /\ audio_only' = FALSE
    /\ ok' = FALSE
    /\ hist' = NoHist
    /\ readCkpt' = 0
    /\ hadInterm' = FALSE
    /\ readText' = <<>>
    /\ call' = NoCall

\* Lines 196-248: read the checkpoint, reset it when there is nothing to resume
\* from, then validate the configuration and the input directory.
\* A bug: the test for the intermediate directory is inverted.
Resume_inverted(f, interm) ==
    IF _read_checkpoint(f) # 0 /\ interm THEN 0 ELSE _read_checkpoint(f)

\* Lines 197-214: the stage count the run resumes from.
Resume(f, interm) ==
    IF _read_checkpoint(f) # 0 /\ ~interm THEN 0 ELSE _read_checkpoint(f)

Start(config, dirOk, ao) ==
    /\ pc = "idle"
    /\ ckptFile' = IF Resume(ckptFile, intermExists) = 0
                   THEN _write_checkpoint(0) ELSE ckptFile
    /\ intermExists' = TRUE
    /\ ok' = FALSE
    /\ hist' = NoHist
    /\ call' = [config |-> config, input_dir |-> dirOk]
    /\ IF ValidConfig(config) /\ dirOk
       THEN /\ pc' = "seq"
            /\ step' = STEP_FIND_FILES
            /\ exitStatus' = "none"
            /\ checkpoint' = Resume(ckptFile, intermExists)
            /\ audio_only' = ao
            /\ readCkpt' = _read_checkpoint(ckptFile)
            /\ hadInterm' = intermExists
            /\ readText' = ckptFile
       ELSE /\ pc' = "idle"
            /\ step' = STEP_INIT
            /\ exitStatus' = "1"
            /\ checkpoint' = 0
            /\ audio_only' = FALSE
            /\ readCkpt' = 0
            /\ hadInterm' = FALSE
            /\ readText' = <<>>
    /\ UNCHANGED <<files, arts, inputDir, stagevars>>
    /\ UNCHANGED sidevars

\* The else branch of each "if checkpoint < STEP_n".
Skip ==
    /\ pc = "seq"
    /\ step \in Stages
    /\ ~ShouldRun(checkpoint, step)
    /\ step' = step + 1
    /\ hist' = [hist EXCEPT ![step] = "skipped"]
    /\ UNCHANGED <<disk, pc, checkpoint, exitStatus, ok, stagevars, runvars>>
    /\ UNCHANGED sidevars

\* A bug: the assignment checkpoint = STEP_n is missing.
Proceed_stale ==
    /\ ckptFile' = _update_checkpoint(ckptFile)
    /\ step' = step + 1
    /\ pc' = "seq"
    /\ ok' = FALSE
    /\ hist' = [hist EXCEPT ![step] = IF hist[step] = "copied" THEN "copied" ELSE "ok"]
    /\ ClearStage
    /\ UNCHANGED <<intermExists, files, arts, inputDir, checkpoint, exitStatus,
                   runvars>>
    /\ UNCHANGED sidevars

\* _update_checkpoint(output_dir, logger); checkpoint = STEP_n: lines 262-263,
\* 294-295, 303-304, 334-335, 363-364, 393-394.
Proceed ==
    /\ ckptFile' = _update_checkpoint(ckptFile)
    /\ checkpoint' = step
    /\ step' = step + 1
    /\ pc' = "seq"
    /\ ok' = FALSE
    /\ hist' = [hist EXCEPT ![step] = IF hist[step] = "copied" THEN "copied" ELSE "ok"]
    /\ ClearStage
    /\ UNCHANGED <<intermExists, files, arts, inputDir, exitStatus, runvars>>
    /\ UNCHANGED sidevars

\* A bug: the return value of the stage is not tested.
Advance_unchecked ==
    /\ pc = "returned"
    /\ Proceed

\* The stage reported success.
Advance ==
    /\ pc = "returned"
    /\ ok
    /\ Proceed

\* A bug: the failure is logged and the run goes on with the next stage.
Halt_continue ==
    /\ pc = "returned"
    /\ ~ok
    /\ step' = step + 1
    /\ pc' = "seq"
    /\ ClearStage
    /\ UNCHANGED <<disk, checkpoint, exitStatus, ok, hist, runvars>>
    /\ UNCHANGED sidevars

\* "if not <stage>(): ... exit(1)".
Halt ==
    /\ pc = "returned"
    /\ ~ok
    /\ pc' = "idle"
    /\ exitStatus' = "1"
    /\ ClearStage
    /\ ClearRun
    /\ UNCHANGED <<disk, step>>
    /\ UNCHANGED sidevars

\* Lines 398-414: the end of summarize().
Complete ==
    /\ pc = "seq"
    /\ step = STEP_COMPLETE
    /\ ckptFile' = _write_checkpoint(STEP_COMPLETE)
    /\ pc' = "idle"
    /\ exitStatus' = "0"
    /\ ClearRun
    /\ UNCHANGED <<intermExists, files, arts, inputDir, step, stagevars>>
    /\ UNCHANGED sidevars

\* The process is killed (power loss, kill -9, an uncaught exception).
Crash ==
    /\ pc # "idle"
    /\ pc' = "idle"
    /\ exitStatus' = IF pc = "running" THEN "killed in stage" ELSE "killed"
    /\ ClearStage
    /\ ClearRun
    /\ UNCHANGED <<disk, step>>
    /\ UNCHANGED sidevars

\* Between runs the user removes output_dir/intermediates (the case lines
\* 208-214 provide for).  checkpoint.txt, summaries/ and the OSS bucket are
\* outside that directory.
DeleteInterm ==
    /\ pc = "idle"
    /\ intermExists
    /\ intermExists' = FALSE
    /\ files' = [f \in FileNames |-> <<>>]
    /\ audioArt' = [k \in Slots |-> 0]
    /\ audioBad' = {}
    /\ textArt' = [k \in Slots |-> 0]
    /\ UNCHANGED <<ckptFile, ossObj, summaryArt, inputDir, pc, step, checkpoint,
                   exitStatus, ok, stagevars, hist, runvars>>
    /\ UNCHANGED sidevars

----------------------------------------------------------------------------
\* Stage 1, AVFinder.find_and_save.

BeginDiscover ==
    /\ pc = "seq"
    /\ step = STEP_FIND_FILES
    /\ ShouldRun(checkpoint, step)
    /\ pc' = "running"
    /\ hist' = [hist EXCEPT ![step] = "running"]
    /\ UNCHANGED <<disk, step, checkpoint, exitStatus, ok, stagevars, runvars>>
    /\ UNCHANGED sidevars

\* _scan_directory: every media file of the directory, in directory order.
ScanResult == [s \in 1..Len(inputDir) |-> Entry("src", s)]

\* find_and_save lines 377-397: no file found is a failure, else the result
\* of _save_to_json.
FinishDiscover(writeOk) ==
    /\ pc = "running"
    /\ step = STEP_FIND_FILES
    /\ pc' = "returned"
    /\ ok' = (Len(ScanResult) # 0 /\ writeOk)
    /\ files' = IF Len(ScanResult) # 0 /\ writeOk
                THEN [files EXCEPT !["inputs"] = <<ScanResult>>]
                ELSE files
    /\ UNCHANGED <<ckptFile, intermExists, arts, inputDir, step, checkpoint,
                   exitStatus, stagevars, hist, runvars>>
    /\ UNCHANGED sidevars

----------------------------------------------------------------------------
\* Stage 2 in audio-only mode, main.py lines 299-304: shutil.copy2.

AudioOnlyCopy ==
    /\ pc = "seq"
    /\ step = STEP_EXTRACT_AUDIO
    /\ audio_only
    /\ ShouldRun(checkpoint, step)
    /\ files["inputs"] # <<>>
    /\ files' = [files EXCEPT !["audios"] = files["inputs"]]
    /\ pc' = "returned"
    /\ ok' = TRUE
    /\ hist' = [hist EXCEPT ![step] = "copied"]
    /\ UNCHANGED <<ckptFile, intermExists, arts, inputDir, step, checkpoint,
                   exitStatus, stagevars, runvars>>
    /\ UNCHANGED sidevars

----------------------------------------------------------------------------
\* Stages 2..5: loading the input list.

\* What the stage reads from its input file, before the blank filter.
LoadRaw(n) == FileList(InputJson(n))

\* _load_video_list fails when the file is missing, json.load raises or the
\* value cannot be iterated, and has no isinstance test; _load_file_list,
\* _load_url_list and _load_text_file_paths return [] then and for a value that
\* is not a list, and their callers treat an empty list as a failure.
LoadFails(n) ==
    \/ files[InputJson(n)] = <<>>
    \/ JsonKind(InputJson(n)) \in {"malformed", "number"}
    \/ n # STEP_EXTRACT_AUDIO /\ JsonKind(InputJson(n)) # "list"
    \/ n # STEP_EXTRACT_AUDIO /\ FilterBlank(LoadRaw(n)) = <<>>

\* A bug: no existing artifact is recognised.
AlreadyDone_none(n, len) == {}

\* Numbers idx+1 whose artifact of stage n exists and is not empty, lines
\* 1501-1521 and 1927-1948.  ExtractAudio and Upload decide in the worker.
AlreadyDone(n, len) ==
    CASE n = STEP_TRANSCRIBE -> {k \in 1..len : textArt[k] # 0}
      [] n = STEP_SUMMARIZE -> {k \in 1..len : summaryArt[k].prov # 0}
      [] OTHER -> {}

RunsProcessor(n) ==
    /\ pc = "seq"
    /\ step = n
    /\ n \in STEP_EXTRACT_AUDIO..STEP_SUMMARIZE
    /\ n = STEP_EXTRACT_AUDIO => ~audio_only
    /\ ShouldRun(checkpoint, n)

\* The processor returns False before any work.
LoadFail ==
    /\ RunsProcessor(step)
    /\ LoadFails(step)
    /\ pc' = "returned"
    /\ ok' = FALSE
    /\ hist' = [hist EXCEPT ![step] = "running"]
    /\ UNCHANGED <<disk, step, checkpoint, exitStatus, stagevars, runvars>>
    /\ UNCHANGED sidevars

\* The output list of Transcribe and Summarize: the artifact path for a
\* skipped index and for an index with a result, "" otherwise.
PathList(kind, len, skipped, res) ==
    [k \in 1..len |-> IF k \in skipped \/ res[k].prov # 0
                      THEN Entry(kind, k) ELSE Empty]

\* Lines 1527-1531 and 1954-1957: every item has a valid artifact, only the
\* output list is regenerated.  transcribe_audio ignores the result of
\* _generate_output_json, summarize_texts returns it.
AllSkipped(writeOk) ==
    /\ RunsProcessor(step)
    /\ step \in {STEP_TRANSCRIBE, STEP_SUMMARIZE}
    /\ ~LoadFails(step)
    /\ LET len == Len(FilterBlank(LoadRaw(step)))
           kind == IF step = STEP_TRANSCRIBE THEN "text" ELSE "md"
       IN /\ AlreadyDone(step, len) = 1..len
          /\ files' = IF writeOk
                      THEN [files EXCEPT ![OutputJson(step)] =
                               <<PathList(kind, len, 1..len, NoResults)>>]
                      ELSE files
          /\ skipped_count' = IF step = STEP_SUMMARIZE /\ writeOk
                              THEN len ELSE skipped_count
    /\ ok' = (step = STEP_TRANSCRIBE \/ writeOk)
    /\ pc' = "returned"
    /\ hist' = [hist EXCEPT ![step] = "running"]
    /\ UNCHANGED <<ckptFile, intermExists, arts, inputDir, step, checkpoint,
                   exitStatus, loaded, skipped_indices, pending, results,
                   failed_count, success_count, runvars>>
    /\ UNCHANGED sidevars

\* The processor loads its list and submits one task per item to process.
BeginStage ==
    /\ RunsProcessor(step)
    /\ ~LoadFails(step)
    /\ LET len == Len(FilterBlank(LoadRaw(step)))
       IN /\ AlreadyDone(step, len) # 1..len \/ step \in {STEP_EXTRACT_AUDIO, STEP_UPLOAD_OSS}
          /\ skipped_indices' = AlreadyDone(step, len)
          /\ pending' = (1..len) \ AlreadyDone(step, len)
          /\ skipped_count' = IF step = STEP_SUMMARIZE
                              THEN Cardinality(AlreadyDone(step, len)) ELSE 0
    /\ loaded' = LoadRaw(step)
    /\ results' = NoResults
    /\ failed_count' = 0
    /\ success_count' = 0
    /\ pc' = "running"
    /\ hist' = [hist EXCEPT ![step] = "running"]
    /\ UNCHANGED <<disk, step, checkpoint, exitStatus, ok, runvars>>
    /\ UNCHANGED sidevars

----------------------------------------------------------------------------
\* Stages 2..5: the per-item operations, one step per completed task, in any
\* order (as_completed).

\* The list the stage works on and numbers: enumerate() of the filtered list.
Tasks == FilterBlank(loaded)

Val(e) == [val |-> e, prov |-> 0, link |-> 0]
Text(p, l) == [val |-> Empty, prov |-> p, link |-> l]

\* A bug: no extension is taken for an audio extension.
IsAudio_never(e) == FALSE

\* extension in AUDIO_EXTENSIONS, _extract_audio line 614.
IsAudio(e) == e.kind = "src" /\ inputDir[e.n] = "audio"

Working(n, k) ==
    /\ pc = "running"
    /\ step = n
    /\ k \in pending

\* A bug: the result is stored at the next free position, in completion order.
Done_by_arrival(k, r) ==
    /\ pending' = pending \ {k}
    /\ results' = [results EXCEPT
           ![Cardinality((1..Len(Tasks)) \ (pending \cup skipped_indices)) + 1] = r]
    /\ failed_count' = IF r = NoResult /\ step # STEP_TRANSCRIBE
                       THEN failed_count + 1 ELSE failed_count

\* A bug: a failed task is not counted.
Done_uncounted(k, r) ==
    /\ pending' = pending \ {k}
    /\ results' = [results EXCEPT ![k] = r]
    /\ failed_count' = failed_count

\* The collecting loop stores the result of task k under its index and counts
\* a failed task, lines 778-812, 1091-1113 and 1981-1997.  transcribe_audio
\* counts in its final loop instead.
Done(k, r) ==
    /\ pending' = pending \ {k}
    /\ results' = [results EXCEPT ![k] = r]
    /\ failed_count' = IF r = NoResult /\ step # STEP_TRANSCRIBE
                       THEN failed_count + 1 ELSE failed_count

\* _check_audio_correct(input_path, audio_path) for 00k.mp3 that exists: a
\* file extracted from this source passes unless it is a bad one; a file left
\* by another source passes when the two durations happen to agree.
\* The branch of the result loop a completed task takes, lines 793-807,
\* 1102-1112 and 1990-1996: a success is counted as skipped when its message
\* says so; transcribe_audio counts in its final loop.
Tally(kind) ==
    /\ success_count' = IF kind = "success" THEN success_count + 1 ELSE success_count
    /\ skipped_count' = IF kind = "skipped" THEN skipped_count + 1 ELSE skipped_count

Passes(k, e) == audioArt[k] # 0 /\ (audioArt[k] # e.n \/ k \notin audioBad)
Fails(k, e) == audioArt[k] # 0 /\ (audioArt[k] # e.n \/ k \in audioBad)

\* ffmpeg runs when 00k.mp3 is absent or was deleted for failing the check.
Extracts(k, e) == ~IsAudio(e) /\ (audioArt[k] = 0 \/ Fails(k, e))

\* AudioExtractor._extract_audio and lines 778-812 of process_videos.
ExtractItem(k) ==
    /\ Working(STEP_EXTRACT_AUDIO, k)
    /\ LET e == Tasks[k]
       IN \/ \* an audio file that exists is passed through
             /\ IsAudio(e)
             /\ Done(k, Val(e))
             /\ Tally("skipped")
             /\ UNCHANGED <<audioArt, audioBad>>
          \/ \* an audio file that does not exist
             /\ IsAudio(e)
             /\ Done(k, NoResult)
             /\ Tally("failed")
             /\ UNCHANGED <<audioArt, audioBad>>
          \/ \* 00k.mp3 exists and passes the duration check
             /\ ~IsAudio(e)
             /\ Passes(k, e)
             /\ Done(k, Val(Entry("audio", k)))
             /\ Tally("skipped")
             /\ UNCHANGED <<audioArt, audioBad>>
          \/ \* 00k.mp3 exists, fails the check and cannot be deleted
             /\ ~IsAudio(e)
             /\ Fails(k, e)
             /\ Done(k, NoResult)
             /\ Tally("failed")
             /\ UNCHANGED <<audioArt, audioBad>>
          \/ \* extracted and verified
             /\ Extracts(k, e)
             /\ audioArt' = [audioArt EXCEPT ![k] = e.n]
             /\ audioBad' = audioBad \ {k}
             /\ Done(k, Val(Entry("audio", k)))
             /\ Tally("success")
          \/ \* extracted, but the verification fails: the file stays
             /\ Extracts(k, e)
             /\ audioArt' = [audioArt EXCEPT ![k] = e.n]
             /\ audioBad' = audioBad \cup {k}
             /\ Done(k, NoResult)
             /\ Tally("failed")
          \/ \* ffmpeg fails or times out, nothing is left
             /\ Extracts(k, e)
             /\ audioArt' = [audioArt EXCEPT ![k] = 0]
             /\ audioBad' = audioBad \ {k}
             /\ Done(k, NoResult)
             /\ Tally("failed")
    /\ UNCHANGED <<ckptFile, intermExists, files, ossObj, textArt, summaryArt,
                   inputDir, pc, step, checkpoint, exitStatus, ok, loaded,
                   skipped_indices, hist, runvars>>
    /\ UNCHANGED sidevars

\* OSSUploader._upload_single_file and lines 1091-1113 of upload_files.  The
\* object is keyed by idx+1; two contents have the same hash when they come
\* from the same source.
UploadItem(k) ==
    /\ Working(STEP_UPLOAD_OSS, k)
    /\ LET e == Tasks[k]
       IN \/ \* the local file is missing, or the upload raises
             /\ Done(k, NoResult)
             /\ Tally("failed")
             /\ UNCHANGED ossObj
          \/ \* the object exists with the same hash: only the URL is signed
             /\ Prov(e) # 0
             /\ ossObj[k] = Prov(e)
             /\ Done(k, Val(Entry("url", k)))
             /\ Tally("skipped")
             /\ UNCHANGED ossObj
          \/ \* put_object_from_file
             /\ Prov(e) # 0
             /\ ossObj' = [ossObj EXCEPT ![k] = Prov(e)]
             /\ Done(k, Val(Entry("url", k)))
             /\ Tally("success")
    /\ UNCHANGED <<ckptFile, intermExists, files, audioArt, audioBad, textArt,
                   summaryArt, inputDir, pc, step, checkpoint, exitStatus, ok,
                   loaded, skipped_indices, hist, runvars>>
    /\ UNCHANGED sidevars

\* The transcript of one submitted URL, lines 1295-1373 and 1580-1592: the
\* result carries the file it was made from.
TranscribeItem(k) ==
    /\ Working(STEP_TRANSCRIBE, k)
    /\ LET e == Tasks[k]
       IN \/ Done(k, NoResult)
          \/ /\ Prov(e) # 0
             /\ Done(k, Text(Prov(e), 0))
    /\ Tally("final loop")
    /\ UNCHANGED <<disk, pc, step, checkpoint, exitStatus, ok, loaded,
                   skipped_indices, hist, runvars>>
    /\ UNCHANGED sidevars

\* origin_paths[idx] if idx < len(origin_paths) else "", line 1930, with
\* origin_paths the unfiltered content of inputs.json.
OriginPath(k) ==
    IF k <= Len(FileList("inputs")) THEN FileList("inputs")[k].n ELSE 0

\* TextSummarizer._summarize_single_text.
SummarizeItem(k) ==
    /\ Working(STEP_SUMMARIZE, k)
    /\ LET e == Tasks[k]
       IN \/ Done(k, NoResult) /\ Tally("failed")
          \/ /\ Prov(e) # 0
             /\ Done(k, Text(Prov(e), OriginPath(k)))
             /\ Tally("success")
    /\ UNCHANGED <<disk, pc, step, checkpoint, exitStatus, ok, loaded,
                   skipped_indices, hist, runvars>>
    /\ UNCHANGED sidevars

\* A bug: the stage does not wait for the tasks it submitted.
AllCompleted_unawaited == TRUE

\* The loop over as_completed(...) inside "with ProcessPoolExecutor" has
\* ended: every submitted future has completed, lines 773-812, 1086-1133,
\* 1551-1577 and 1974-2015.
AllCompleted == pending = {}

\* The results whose text file or summary file could be written, lines
\* 1627-1640 and 2035-2046; saved is the set of numbers whose write succeeds.
Saved(saved) == [k \in Slots |-> IF k \in saved THEN results[k] ELSE NoResult]

\* The list a stage writes once every task has completed.
OutputList(n, res) ==
    CASE n = STEP_EXTRACT_AUDIO -> [k \in 1..Len(Tasks) |-> results[k].val]
      [] n = STEP_UPLOAD_OSS -> [k \in 1..Len(Tasks) |-> results[k].val]
      [] n = STEP_TRANSCRIBE -> PathList("text", Len(Tasks), skipped_indices, res)
      [] n = STEP_SUMMARIZE -> PathList("md", Len(Tasks), skipped_indices, res)

Written(k, res) == k <= Len(Tasks) /\ k \notin skipped_indices /\ res[k].prov # 0

\* The final loop of transcribe_audio, lines 1620-1640: an index without a
\* text, or whose text file cannot be written, is a failure.
FailedTexts(res) ==
    Cardinality({k \in 1..Len(Tasks) : k \notin skipped_indices /\ res[k].prov = 0})

\* Lines 833-878, 1134-1161, 1606-1669, 2018-2075: the artifacts of Transcribe
\* and Summarize are written, then the output list; the stage fails only when
\* the list cannot be written.  The final loop of summarize_texts does not
\* count a summary it could not save.
FinishStage(writeOk, saved) ==
    /\ pc = "running"
    /\ step \in STEP_EXTRACT_AUDIO..STEP_SUMMARIZE
    /\ AllCompleted
    /\ textArt' = IF step = STEP_TRANSCRIBE
                  THEN [k \in Slots |-> IF Written(k, Saved(saved))
                                        THEN results[k].prov ELSE textArt[k]]
                  ELSE textArt
    /\ summaryArt' = IF step = STEP_SUMMARIZE
                     THEN [k \in Slots |-> IF Written(k, Saved(saved))
                                           THEN [prov |-> results[k].prov, link |-> results[k].link]
                                           ELSE summaryArt[k]]
                     ELSE summaryArt
    /\ files' = IF writeOk
                THEN [files EXCEPT ![OutputJson(step)] = <<OutputList(step, Saved(saved))>>]
                ELSE files
    /\ failed_count' = IF step = STEP_TRANSCRIBE
                       THEN FailedTexts(Saved(saved)) ELSE failed_count
    /\ success_count' = IF step = STEP_TRANSCRIBE
                        THEN Cardinality({k \in Slots : Written(k, Saved(saved))})
                        ELSE success_count
    /\ skipped_count' = IF step = STEP_TRANSCRIBE
                        THEN Cardinality(skipped_indices) ELSE skipped_count
    /\ ok' = writeOk
    /\ pc' = "returned"
    /\ loaded' = <<>>
    /\ skipped_indices' = {}
    /\ pending' = {}
    /\ results' = NoResults
    /\ UNCHANGED <<ckptFile, intermExists, audioArt, audioBad, ossObj, inputDir,
                   step, checkpoint, exitStatus, hist, runvars>>
    /\ UNCHANGED sidevars

----------------------------------------------------------------------------

Next ==
    \/ \E config \in Configs, dirOk \in BOOLEAN, ao \in BOOLEAN : Start(config, dirOk, ao)
    \/ Skip
    \/ BeginDiscover
    \/ \E writeOk \in BOOLEAN : FinishDiscover(writeOk)
    \/ AudioOnlyCopy
    \/ LoadFail
    \/ \E writeOk \in BOOLEAN : AllSkipped(writeOk)
    \/ BeginStage
    \/ \E k \in Slots : ExtractItem(k)
    \/ \E k \in Slots : UploadItem(k)
    \/ \E k \in Slots : TranscribeItem(k)
    \/ \E k \in Slots : SummarizeItem(k)
    \/ \E writeOk \in BOOLEAN, saved \in SUBSET Slots : FinishStage(writeOk, saved)
    \/ Advance
    \/ Halt
    \/ Complete
    \/ Crash
    \/ DeleteInterm

Spec == Init /\ [][Next]_vars

TypeOK ==
    /\ pc \in {"idle", "seq", "running", "returned"}
    /\ step \in 0..STEP_COMPLETE
    /\ checkpoint \in 0..STEP_COMPLETE
    /\ pending \subseteq Slots

----------------------------------------------------------------------------
\* summarize() started on an output directory whose checkpoint.txt holds any
\* text: the start of the run and its first stage.

CkptTexts == UNION {[1..n -> Chars] : n \in 0..MaxText}

InitCkpt ==
    /\ ckptFile \in CkptTexts
    /\ intermExists \in BOOLEAN
    /\ files = [f \in FileNames |-> <<>>]
    /\ audioArt = [k \in Slots |-> 0]
    /\ audioBad = {}
    /\ ossObj = [k \in Slots |-> 0]
    /\ textArt = [k \in Slots |-> 0]
    /\ summaryArt = [k \in Slots |-> NoSummary]
    /\ inputDir \in {<<>>, <<"video">>}
    /\ pc = "idle"
    /\ step = 0
    /\ checkpoint = 0
    /\ audio_only = FALSE
    /\ exitStatus = "none"
    /\ ok = FALSE
    /\ loaded = <<>>
    /\ skipped_indices = {}
    /\ pending = {}
    /\ results = NoResults
    /\ failed_count = 0
    /\ success_count = 0
    /\ skipped_count = 0
    /\ hist = NoHist
    /\ readCkpt = 0
    /\ hadInterm = FALSE
    /\ readText = <<>>
    /\ call = NoCall
    /\ InitSide

NextCkpt ==
    \/ \E config \in Configs, dirOk \in BOOLEAN, ao \in BOOLEAN : Start(config, dirOk, ao)
    \/ Skip
    \/ BeginDiscover
    \/ \E writeOk \in BOOLEAN : FinishDiscover(writeOk)
    \/ Advance
    \/ Halt
    \/ Complete
    \/ Crash

SpecCkpt == InitCkpt /\ [][NextCkpt]_vars

----------------------------------------------------------------------------
\* One call of AudioTranscriber._transcribe_batch.

\* A URL by its directory part and its last segment; the query string plays no
\* part in the comparisons.
Urls == [path : {"a", "b"}, name : 1..2]

\* The text transcribed from the file at u is u; NoText is "".
NoText == [path |-> "", name |-> 0]

Injective(q) == \A i, j \in 1..Len(q) : q[i] = q[j] => i = j

Batches == {q \in UNION {[1..n -> Urls] : n \in 1..MaxBatch} : Injective(q)}

\* A transcription of the response: the file it was made of, its file_url
\* field (NoText when the dict has no such key) and its status.
Transcriptions ==
    {t \in [of : Urls, file_url : Urls \cup {NoText},
            subtask_status : {"SUCCEEDED", "FAILED"}] :
        t.file_url \in {t.of, NoText}}

\* What Transcription.wait returns for a batch: one transcription for each
\* URL, in any order.
Responses(batch) ==
    {r \in [1..Len(batch) -> Transcriptions] :
        /\ \A i \in 1..Len(batch) : \E j \in 1..Len(r) : r[j].of = batch[i]
        /\ \A i, j \in 1..Len(r) : r[i].of = r[j].of => i = j}

_extract_filename_from_url(u) == u.name

\* Method 1 of _match_transcription_to_url, for a dict with the key file_url:
\* for each index in turn, the file names are equal or one URL contains the
\* other.  The dicts of the service have no key index and no other string
\* that holds a submitted URL, so methods 2 and 3 find nothing.
Matches(t, u) ==
    /\ t.file_url # NoText
    /\ \/ _extract_filename_from_url(u) = _extract_filename_from_url(t.file_url)
       \/ u = t.file_url

\* A bug: no transcription is matched to a URL.
_match_none(t, urls) == 0

\* The index returned, from 1; 0 stands for -1.
_match_transcription_to_url(t, urls) ==
    IF \E i \in 1..Len(urls) : Matches(t, urls[i])
    THEN CHOOSE i \in 1..Len(urls) :
            /\ Matches(t, urls[i])
            /\ \A j \in 1..(i - 1) : ~Matches(t, urls[j])
    ELSE 0

\* The first empty slot, lines 1343-1350; 0 when there is none.
FirstEmpty(res) ==
    IF \E i \in 1..Len(res) : res[i] = NoText
    THEN CHOOSE i \in 1..Len(res) :
            res[i] = NoText /\ \A j \in 1..(i - 1) : res[j] # NoText
    ELSE 0

Put(res, i, text) == IF i = 0 THEN res ELSE [res EXCEPT ![i] = text]

InitBatch ==
    /\ Init
    /\ inputDir = <<>>

\* The call: results = [""] * len(batch_urls), the service has answered.
TranscribeBatch ==
    /\ batch_urls = NoBatch
    /\ \E batch \in Batches :
          /\ batch_urls' = batch
          /\ response' \in Responses(batch)
          /\ batch_results' = [i \in 1..Len(batch) |-> NoText]
    /\ warnings' = 0
    /\ placed' = {}
    /\ UNCHANGED <<pipevars, poolvars, itemvars, formatvars, toolvars>>

\* One turn of the loop over transcription_response.output['results']: the
\* result goes to the matched index, or with a warning to the first empty
\* slot when there is no match.
HandleTranscription ==
    /\ response # <<>>
    /\ LET t == Head(response)
           matched_index == _match_transcription_to_url(t, batch_urls)
       IN /\ batch_results' =
                IF t.subtask_status = "SUCCEEDED"
                THEN IF matched_index # 0
                     THEN Put(batch_results, matched_index, t.of)
                     ELSE Put(batch_results, FirstEmpty(batch_results), t.of)
                ELSE batch_results
          /\ warnings' = IF t.subtask_status = "SUCCEEDED" /\ matched_index = 0
                         THEN warnings + 1 ELSE warnings
          /\ placed' = IF t.subtask_status # "SUCCEEDED"
                       THEN placed
                       ELSE IF matched_index # 0
                       THEN placed \ {matched_index}
                       ELSE placed \cup ({FirstEmpty(batch_results)} \ {0})
    /\ response' = Tail(response)
    /\ UNCHANGED <<batch_urls, pipevars, poolvars, itemvars, formatvars, toolvars>>

\* The except branch, lines 1369-1373.
BatchRaises ==
    /\ response # <<>>
    /\ batch_results' = [i \in 1..Len(batch_urls) |-> NoText]
    /\ response' = <<>>
    /\ placed' = {}
    /\ UNCHANGED <<batch_urls, warnings, pipevars, poolvars, itemvars, formatvars, toolvars>>

NextBatch ==
    \/ TranscribeBatch
    \/ HandleTranscription
    \/ BatchRaises

SpecBatch == InitBatch /\ [][NextBatch]_vars

----------------------------------------------------------------------------
\* A stage processor started on an input file that holds anything: a restart
\* at checkpoint n - 1 after the file of stage n - 1 was damaged or edited.

KindOf(n) ==
    CASE n = STEP_EXTRACT_AUDIO -> "src"
      [] n = STEP_UPLOAD_OSS -> "audio"
      [] n = STEP_TRANSCRIBE -> "url"
      [] n = STEP_SUMMARIZE -> "text"

\* The lists a stage before n can have written, and three files it cannot.
Lists(n) ==
    UNION {{q \in [1..m -> {Empty} \cup {Entry(KindOf(n), i) : i \in 1..m}] :
               \A i \in 1..m : q[i] \in {Empty, Entry(KindOf(n), i)}}
           : m \in 0..MaxItems}

Contents(n) ==
    {<<l>> : l \in Lists(n)}
    \cup {<<<<>>, "malformed">>, <<<<>>, "number">>, <<<<Entry("key", 1)>>, "object">>}

InitLoad ==
    /\ step \in STEP_EXTRACT_AUDIO..STEP_SUMMARIZE
    /\ checkpoint = step - 1
    /\ ckptFile = str(step - 1)
    /\ intermExists = TRUE
    /\ \E c \in Contents(step) :
          files = [f \in FileNames |-> IF f = InputJson(step) THEN c ELSE <<>>]
    /\ audioArt = [k \in Slots |-> 0]
    /\ audioBad = {}
    /\ ossObj = [k \in Slots |-> 0]
    /\ textArt \in [Slots -> {0, 1}]
    /\ step # STEP_TRANSCRIBE => textArt = [k \in Slots |-> 0]
    /\ summaryArt \in [Slots -> {NoSummary, [prov |-> 1, link |-> 1]}]
    /\ step # STEP_SUMMARIZE => summaryArt = [k \in Slots |-> NoSummary]
    /\ inputDir = [k \in 1..MaxItems |-> "video"]
    /\ pc = "seq"
    /\ audio_only = FALSE
    /\ exitStatus = "none"
    /\ ok = FALSE
    /\ loaded = <<>>
    /\ skipped_indices = {}
    /\ pending = {}
    /\ results = NoResults
    /\ failed_count = 0
    /\ success_count = 0
    /\ skipped_count = 0
    /\ hist = [n \in Stages |-> IF n < step THEN "skipped" ELSE "none"]
    /\ readCkpt = step - 1
    /\ hadInterm = TRUE
    /\ readText = str(step - 1)
    /\ call = [config |-> ConfigKeysRead, input_dir |-> TRUE]
    /\ InitSide

NextLoad ==
    \/ LoadFail
    \/ \E writeOk \in BOOLEAN : AllSkipped(writeOk)
    \/ BeginStage
    \/ Halt

SpecLoad == InitLoad /\ [][NextLoad]_vars

----------------------------------------------------------------------------
\* transcribe_audio, lines 1533-1592: the URLs to transcribe are split into
\* batches, every batch is submitted to a pool of its own process.

Min(a, b) == IF a < b THEN a ELSE b
Max(a, b) == IF a > b THEN a ELSE b

\* A bug: the number of batches ignores the cap on the batch size.
num_batches_uncapped(n, p) == Min(p, n)

\* num_batches, lines 1274-1281, for n URLs and num_processes p.
num_batches(n, p) ==
    Max(Min(p, n), (n + max_batch_size - 1) \div max_batch_size)

\* batch_size, line 1284.
batch_size(n, p) == (n + num_batches(n, p) - 1) \div num_batches(n, p)

\* A bug: only the slices that are full are kept.
_split_full_batches(urls, p) ==
    LET n == Len(urls)
        size == batch_size(n, p)
    IN [b \in 1..(n \div size) |-> SubSeq(urls, (b - 1) * size + 1, b * size)]

\* The slices urls[i:i+batch_size] for i in range(0, len(urls), batch_size).
_split_urls_into_batches(urls, p) ==
    LET n == Len(urls)
        size == batch_size(n, p)
    IN [b \in 1..((n + size - 1) \div size) |->
           SubSeq(urls, (b - 1) * size + 1, Min(b * size, n))]

\* ProcessPoolExecutor(max_workers=len(url_batches)), line 1551.
max_workers == Len(url_batches)

InitSplit ==
    /\ Init
    /\ inputDir = <<>>

\* The original index of the i-th URL left to transcribe, when no index was
\* skipped (stride 1) and when every other one was (stride 2); the latter for
\* the lists of up to MaxSparse URLs.
Strides(n) == IF n <= MaxSparse THEN {1, 2} ELSE {1}

\* Lines 1533-1538, for any number of URLs left to transcribe, which is at
\* least one (line 1527), and any num_processes.  A URL is named by its
\* position among those left.
SplitUrls ==
    /\ url_batches = <<>>
    /\ \E n \in 1..MaxUrls, p \in 1..MaxProcesses :
       \E stride \in Strides(n) :
          /\ num_processes' = p
          /\ filtered_urls' = [i \in 1..n |-> <<stride * i, i>>]
          /\ urls_to_transcribe' = [i \in 1..n |-> i]
          /\ url_batches' = _split_urls_into_batches([i \in 1..n |-> i], p)
    /\ result_dict' = <<>>
    /\ UNCHANGED <<running, completed>>
    /\ UNCHANGED <<pipevars, batchvars, itemvars, formatvars, toolvars>>

\* A process of the pool takes a submitted batch, lines 1551-1555.
StartBatch(i) ==
    /\ i \in 1..Len(url_batches)
    /\ i \notin running \cup completed
    /\ Cardinality(running) < max_workers
    /\ running' = running \cup {i}
    /\ UNCHANGED <<num_processes, urls_to_transcribe, url_batches, filtered_urls,
                   result_dict, completed>>
    /\ UNCHANGED <<pipevars, batchvars, itemvars, formatvars, toolvars>>

\* The transcript of a URL is named by the URL; "" is 0.
NoTranscript == 0

\* The future of a batch completes, lines 1561-1577: _transcribe_batch
\* returned one result per URL of the batch, or all "" (lines 1352-1355 and
\* 1369-1373), or raised and line 1577 stores as many "".
CompleteBatch(i) ==
    /\ i \in running
    /\ running' = running \ {i}
    /\ completed' = completed \cup {i}
    /\ \E batch_ok \in BOOLEAN :
          result_dict' =
             [b \in DOMAIN result_dict \cup {i} |->
                 IF b # i THEN result_dict[b]
                 ELSE [j \in 1..Len(url_batches[i]) |->
                          IF batch_ok THEN url_batches[i][j] ELSE NoTranscript]]
    /\ UNCHANGED <<num_processes, urls_to_transcribe, url_batches, filtered_urls>>
    /\ UNCHANGED <<pipevars, batchvars, itemvars, formatvars, toolvars>>

\* Lines 1579-1582: the results of the batches in the order of the batch
\* indices, one list.
RECURSIVE Extend(_, _)
Extend(d, b) ==
    IF b = 0 THEN <<>>
    ELSE Extend(d, b - 1) \o (IF b \in DOMAIN d THEN d[b] ELSE <<>>)

transcribed_results == Extend(result_dict, Len(url_batches))

\* Lines 1586-1592: the i-th result goes to the original index of the i-th
\* pair of filtered_urls.
index_to_result ==
    [k \in {filtered_urls[i][1] : i \in 1..Len(filtered_urls)} |->
        LET i == CHOOSE j \in 1..Len(filtered_urls) : filtered_urls[j][1] = k
        IN IF i <= Len(transcribed_results)
           THEN transcribed_results[i] ELSE NoTranscript]

NextSplit ==
    \/ SplitUrls
    \/ \E i \in 1..MaxUrls : StartBatch(i)
    \/ \E i \in 1..MaxUrls : CompleteBatch(i)

SpecSplit == InitSplit /\ [][NextSplit]_vars

----------------------------------------------------------------------------
\* One item of a stage that meets what an earlier run left for it: a call of
\* _extract_audio step by step, and one turn of the loop of transcribe_audio
\* and summarize_texts that looks for the text or summary file of an index.

\* _get_duration returns None when ffprobe fails, line 567.
None == 0 - 1
Durations == 0..MaxDuration
Probes == Durations \cup {None}

\* The content of a text or summary file: whitespace and other characters.
Texts == UNION {[1..n -> {Blank, Junk}] : n \in 0..MaxText}

NoRet == [success |-> FALSE, message |-> "", path |-> Empty]

Abs(x) == IF x < 0 THEN 0 - x ELSE x

\* A bug: the check passes whatever the two durations are.
_check_audio_correct_lax(w) ==
    w.audio_exists /\ w.video_duration # None /\ w.audio_duration # None

\* _check_audio_correct(video_path, audio_path), lines 569-593, on the
\* durations _get_duration gives for the two files.
_check_audio_correct(w) ==
    /\ w.audio_exists
    /\ w.video_duration # None
    /\ w.audio_duration # None
    /\ Abs(w.video_duration - w.audio_duration) <= Tolerance

\* return idx, success, message, audio_path_str, ...
Return(w, success, message, path) ==
    [w EXCEPT !.pc = "returned",
              !.ret = [success |-> success, message |-> message, path |-> path]]

\* A worker of the pool calls _extract_audio for task k.  The files it will
\* find are any: the input exists or not and ffprobe gives a duration for it
\* or fails; 00k.mp3 exists or not, can be probed and deleted or not.
TakeTask(k) ==
    /\ Working(STEP_EXTRACT_AUDIO, k)
    /\ worker.pc = "idle"
    /\ \E ie \in BOOLEAN, vd \in Probes, ae \in BOOLEAN, ad \in Probes, cu \in BOOLEAN :
          /\ ~ie => vd = None
          /\ ~ae => (ad = None /\ cu)
          /\ IsAudio(Tasks[k]) => (~ae /\ vd = None)
          /\ worker' = [pc |-> "entered", idx |-> k,
                        is_audio |-> IsAudio(Tasks[k]), input_exists |-> ie,
                        video_duration |-> vd, audio_exists |-> ae,
                        audio_duration |-> ad, can_unlink |-> cu,
                        ffmpeg_calls |-> 0, unlinks |-> 0, ret |-> NoRet]
    /\ UNCHANGED <<pipevars, batchvars, poolvars, artifact, formatvars, toolvars>>

\* Lines 608-642: an audio input is passed through; 00k.mp3 that exists and is
\* correct is reused; one that is not is deleted before the extraction.
CheckExisting ==
    /\ worker.pc = "entered"
    /\ LET w == worker
       IN worker' =
            CASE w.is_audio /\ w.input_exists ->
                    Return(w, TRUE, "input is audio, skipped", Tasks[w.idx])
              [] w.is_audio /\ ~w.input_exists ->
                    Return(w, FALSE, "input audio file does not exist", Empty)
              [] ~w.is_audio /\ w.audio_exists
                   /\ w.audio_duration # None /\ _check_audio_correct(w) ->
                    Return(w, TRUE, "exists and correct", Entry("audio", w.idx))
              [] ~w.is_audio /\ w.audio_exists
                   /\ ~(w.audio_duration # None /\ _check_audio_correct(w))
                   /\ w.can_unlink ->
                    [w EXCEPT !.pc = "ffmpeg", !.audio_exists = FALSE,
                              !.audio_duration = None, !.unlinks = @ + 1]
              [] ~w.is_audio /\ w.audio_exists
                   /\ ~(w.audio_duration # None /\ _check_audio_correct(w))
                   /\ ~w.can_unlink ->
                    Return(w, FALSE, "cannot delete the incorrect audio file", Empty)
              [] ~w.is_audio /\ ~w.audio_exists ->
                    [w EXCEPT !.pc = "ffmpeg"]
    /\ UNCHANGED <<pipevars, batchvars, poolvars, artifact, formatvars, toolvars>>

\* Lines 644-680: ffmpeg is run once.  It writes 00k.mp3 and returns 0, which
\* it cannot without an input, or it returns an error, or it is killed after
\* 300 seconds, or subprocess.run raises; a file it was writing may stay.  An
\* extracted file whose duration is None or 0, or differs too much, is
\* reported as failed and stays where it is.
RunFfmpeg ==
    /\ worker.pc = "ffmpeg"
    /\ \E outcome \in {"ok", "error", "timeout", "exception"},
          d \in Probes, partial \in BOOLEAN :
          /\ outcome = "ok" => (worker.input_exists /\ ~partial)
          /\ outcome # "ok" => d = None
          /\ outcome = "exception" => ~partial
          /\ LET w == [worker EXCEPT !.ffmpeg_calls = @ + 1,
                                     !.audio_exists = (outcome = "ok" \/ partial),
                                     !.audio_duration = d]
             IN worker' =
                  CASE outcome = "ok" /\ d # None /\ d # 0 /\ _check_audio_correct(w) ->
                          Return(w, TRUE, "extracted", Entry("audio", w.idx))
                    [] outcome = "ok" /\ ~(d # None /\ d # 0 /\ _check_audio_correct(w)) ->
                          Return(w, FALSE, "verification after extraction failed", Empty)
                    [] outcome = "error" -> Return(w, FALSE, "ffmpeg error", Empty)
                    [] outcome = "timeout" -> Return(w, FALSE, "timeout", Empty)
                    [] outcome = "exception" -> Return(w, FALSE, "exception", Empty)
    /\ UNCHANGED <<pipevars, batchvars, poolvars, artifact, formatvars, toolvars>>

\* process_videos takes the tuple a worker returned, lines 778-812: a task
\* that did not succeed counts as failed, one that did and has a path goes to
\* extracted_map.  Every return has a path exactly when it succeeded.
Collect ==
    /\ worker.pc = "returned"
    /\ Working(STEP_EXTRACT_AUDIO, worker.idx)
    /\ Done(worker.idx, IF worker.ret.success /\ worker.ret.path # Empty
                        THEN Val(worker.ret.path) ELSE NoResult)
    /\ Tally(IF ~worker.ret.success THEN "failed"
             ELSE IF worker.ret.message \in {"input is audio, skipped", "exists and correct"}
             THEN "skipped" ELSE "success")
    /\ worker' = NoWorker
    /\ UNCHANGED <<disk, pc, step, checkpoint, exitStatus, ok, loaded,
                   skipped_indices, hist, runvars>>
    /\ UNCHANGED <<batchvars, poolvars, artifact, formatvars, toolvars>>

\* future.result() raises, lines 780-786: the process of the worker died.
TaskException ==
    /\ worker.pc \in {"entered", "ffmpeg"}
    /\ Working(STEP_EXTRACT_AUDIO, worker.idx)
    /\ Done(worker.idx, NoResult)
    /\ Tally("failed")
    /\ worker' = NoWorker
    /\ UNCHANGED <<disk, pc, step, checkpoint, exitStatus, ok, loaded,
                   skipped_indices, hist, runvars>>
    /\ UNCHANGED <<batchvars, poolvars, artifact, formatvars, toolvars>>

\* existing_content.strip() of a file that exists and can be read, lines
\* 1505-1513 and 1932-1941.
ValidArtifact(a) == a.exists /\ a.readable /\ strip(a.content) # <<>>

\* A bug: a file that exists is taken for done without being read.
Classify_exists(a) == a.exists

\* Whether the index is skipped.
Classify(a) == ValidArtifact(a)

\* One turn of the loop of lines 1501-1521 and 1927-1950, for the next index
\* of the list: the index goes to skipped_indices or to the tasks to submit.
ClassifyItem ==
    /\ RunsProcessor(step)
    /\ step \in {STEP_TRANSCRIBE, STEP_SUMMARIZE}
    /\ ~LoadFails(step)
    /\ LET k == Cardinality(skipped_indices \cup pending) + 1
       IN /\ k <= Len(FilterBlank(LoadRaw(step)))
          /\ \E ex \in BOOLEAN, rd \in BOOLEAN, c \in Texts :
                /\ ~ex => (~rd /\ c = <<>>)
                /\ ~rd => c = <<>>
                /\ artifact' = [idx |-> k, exists |-> ex, readable |-> rd,
                                content |-> c]
          /\ skipped_indices' = IF Classify(artifact')
                                THEN skipped_indices \cup {k} ELSE skipped_indices
          /\ pending' = IF Classify(artifact')
                        THEN pending ELSE pending \cup {k}
    /\ loaded' = LoadRaw(step)
    /\ UNCHANGED <<disk, pc, step, checkpoint, exitStatus, ok, results,
                   failed_count, success_count, skipped_count, hist, runvars>>
    /\ UNCHANGED <<batchvars, poolvars, worker, formatvars, toolvars>>

\* ExtractAudio has submitted its tasks; Transcribe or Summarize has loaded
\* its list.
InitItem ==
    /\ step \in {STEP_EXTRACT_AUDIO, STEP_TRANSCRIBE, STEP_SUMMARIZE}
    /\ checkpoint = step - 1
    /\ ckptFile = str(step - 1)
    /\ intermExists = TRUE
    /\ \E n \in 1..MaxItems :
          /\ files = [f \in FileNames |->
                        IF f = InputJson(step)
                        THEN <<[i \in 1..n |-> Entry(KindOf(step), i)]>> ELSE <<>>]
          /\ inputDir \in [1..n -> {"audio", "video"}]
          /\ step # STEP_EXTRACT_AUDIO => inputDir = [i \in 1..n |-> "video"]
          /\ loaded = IF step = STEP_EXTRACT_AUDIO
                      THEN [i \in 1..n |-> Entry("src", i)] ELSE <<>>
          /\ pending = IF step = STEP_EXTRACT_AUDIO THEN 1..n ELSE {}
    /\ audioArt = [k \in Slots |-> 0]
    /\ audioBad = {}
    /\ ossObj = [k \in Slots |-> 0]
    /\ textArt = [k \in Slots |-> 0]
    /\ summaryArt = [k \in Slots |-> NoSummary]
    /\ pc = IF step = STEP_EXTRACT_AUDIO THEN "running" ELSE "seq"
    /\ audio_only = FALSE
    /\ exitStatus = "none"
    /\ ok = FALSE
    /\ skipped_indices = {}
    /\ results = NoResults
    /\ failed_count = 0
    /\ success_count = 0
    /\ skipped_count = 0
    /\ hist = [n \in Stages |-> IF n < step THEN "skipped" ELSE "none"]
    /\ readCkpt = step - 1
    /\ hadInterm = TRUE
    /\ readText = str(step - 1)
    /\ call = [config |-> ConfigKeysRead, input_dir |-> TRUE]
    /\ InitSide

NextItem ==
    \/ \E k \in Slots : TakeTask(k)
    \/ CheckExisting
    \/ RunFfmpeg
    \/ Collect
    \/ TaskException
    \/ ClassifyItem
    \/ \E writeOk \in BOOLEAN, saved \in SUBSET Slots : FinishStage(writeOk, saved)

SpecItem == InitItem /\ [][NextItem]_vars

----------------------------------------------------------------------------
\* AudioTranscriber._format_transcription_result.

\* A sentence of the service: when it begins, who speaks, and its text, which
\* is whitespace only or has whitespace after its words.
Sentences ==
    [begin_time : 0..MaxTime, speaker_id : 0..1,
     text : {<<Blank>>, <<Junk, Blank>>}]

SeqsUpTo(S, m) == UNION {[1..n -> S] : n \in 0..m}

\* result_data["transcripts"]: each transcript by its sentences.
ResultData == SeqsUpTo(SeqsUpTo(Sentences, MaxSentences), MaxTranscripts)

\* sorted(sentences, key=begin_time), line 1470: a stable sort.
RECURSIVE Insert(_, _)
Insert(q, x) ==
    IF q = <<>> THEN <<x>>
    ELSE IF Head(q).begin_time <= x.begin_time
         THEN <<Head(q)>> \o Insert(Tail(q), x)
         ELSE <<x>> \o q

RECURSIVE sorted(_)
sorted(q) ==
    IF q = <<>> THEN <<>>
    ELSE Insert(sorted(SubSeq(q, 1, Len(q) - 1)), q[Len(q)])

\* f"{speaker_id + 1}: {text}" for a sentence; begin_time is kept with the
\* line to tell which sentence it was made of.
Line(x) ==
    [speaker |-> x.speaker_id + 1, text |-> strip(x.text),
     begin_time |-> x.begin_time]

RECURSIVE LinesOf(_)
LinesOf(q) ==
    IF q = <<>> THEN <<>>
    ELSE IF strip(Head(q).text) # <<>>
         THEN <<Line(Head(q))>> \o LinesOf(Tail(q))
         ELSE LinesOf(Tail(q))

\* Lines 1455-1487: the lines of each transcript in turn, its sentences
\* sorted by begin_time.
RECURSIVE _format_transcription_result(_)
_format_transcription_result(transcripts) ==
    IF transcripts = <<>> THEN <<>>
    ELSE LinesOf(sorted(Head(transcripts)))
            \o _format_transcription_result(Tail(transcripts))

InitFormat ==
    /\ Init
    /\ inputDir = <<>>

\* result_str = self._format_transcription_result(result_data), line 1336.
FormatResult ==
    /\ ~result_data.called
    /\ \E d \in ResultData :
          /\ result_data' = [called |-> TRUE, transcripts |-> d]
          /\ result_str' = _format_transcription_result(d)
    /\ UNCHANGED <<pipevars, batchvars, poolvars, itemvars, toolvars>>

NextFormat == FormatResult

SpecFormat == InitFormat /\ [][NextFormat]_vars

----------------------------------------------------------------------------
\* AVFinder._scan_directory, on a directory tree that holds symbolic links.

Dirs == 1..MaxDirs
NoLink == <<>>

\* A tree: the parent of every directory but input_dir, the file each
\* directory holds (a media file, a file of another type, none), at most one
\* symbolic link <<from, to>> to a directory, at most one directory whose
\* listing is denied, at most one whose name is one of skip_patterns.
Trees ==
    {[dirs |-> Dirs, parent |-> p, file |-> f, link |-> l, denied |-> x, skip |-> s] :
        p \in {q \in [Dirs \ {1} -> Dirs] : \A d \in Dirs \ {1} : q[d] < d},
        f \in [Dirs -> {"none", "media", "other"}],
        l \in {NoLink} \cup (Dirs \X Dirs),
        x \in {{}} \cup {{d} : d \in Dirs},
        s \in {{}} \cup {{d} : d \in Dirs \ {1}}}

\* current_dir.iterdir(): the entries of directory d.
iterdir(t, d) ==
    {[kind |-> t.file[d], to |-> d] : x \in {y \in {d} : t.file[y] # "none"}}
        \cup {[kind |-> "dir", to |-> c] : c \in {y \in Dirs \ {1} : t.parent[y] = d}}
        \cup {[kind |-> "link", to |-> t.link[2]] :
                 x \in {y \in {d} : t.link # NoLink /\ t.link[1] = y}}

\* The symbolic links a path goes through.
Links(path) == Cardinality({i \in 1..Len(path) : path[i].kind = "link"})

\* item.is_dir(): the entry is a directory, or a link to one that the system
\* still resolves.
is_dir(path, e) ==
    /\ e.kind \in {"dir", "link"}
    /\ Links(Append(path, e)) <= MaxSymlinks

\* Lines 128-169: by name only; the result of os.access is not used.
_should_skip_directory(t, e) == e.kind = "dir" /\ e.to \in t.skip

\* Lines 268-270 and 300-304: the call records the directory and lists it; a
\* listing that is denied raises, line 300 logs it and the call returns.
Enter(t, stk, path, d) ==
    IF d \in t.denied
    THEN stk
    ELSE Append(stk, [path |-> path, dir |-> d, todo |-> iterdir(t, d)])

\* find_and_save lines 343-349: clear the lists, scan input_dir.
FindAndSave ==
    /\ tree = NoTree
    /\ \E t \in Trees :
          /\ tree' = t
          /\ audio_files' = <<>>
          /\ processed_dirs' = {<<>>}
          /\ stack' = Enter(t, <<>>, <<>>, 1)
    /\ UNCHANGED <<pipevars, batchvars, poolvars, itemvars, formatvars, linkvars,
                   retryvars>>

\* One turn of "for item in current_dir.iterdir()", lines 272-298, in the
\* innermost call.
ScanItem ==
    /\ stack # <<>>
    /\ LET n == Len(stack)
           top == stack[n]
       IN /\ top.todo # {}
          /\ \E e \in top.todo :
                LET rest == [stack EXCEPT ![n].todo = top.todo \ {e}]
                    path == Append(top.path, e)
                IN IF e.kind = "media"
                   THEN /\ audio_files' = Append(audio_files,
                                                 [path |-> top.path, file |-> e.to])
                        /\ stack' = rest
                        /\ UNCHANGED processed_dirs
                   ELSE IF is_dir(top.path, e) /\ ~_should_skip_directory(tree, e)
                   THEN /\ processed_dirs' = processed_dirs \cup {path}
                        /\ stack' = Enter(tree, rest, path, e.to)
                        /\ UNCHANGED audio_files
                   ELSE /\ stack' = rest
                        /\ UNCHANGED <<audio_files, processed_dirs>>
    /\ UNCHANGED <<pipevars, batchvars, poolvars, itemvars, formatvars, linkvars,
                   retryvars, tree>>

\* The loop of the innermost call is over: it returns to its caller.
ScanReturn ==
    /\ stack # <<>>
    /\ stack[Len(stack)].todo = {}
    /\ stack' = SubSeq(stack, 1, Len(stack) - 1)
    /\ UNCHANGED <<pipevars, batchvars, poolvars, itemvars, formatvars, linkvars,
                   retryvars, tree, audio_files, processed_dirs>>

InitScan ==
    /\ Init
    /\ inputDir = <<>>

NextScan ==
    \/ FindAndSave
    \/ ScanItem
    \/ ScanReturn

SpecScan == InitScan /\ [][NextScan]_vars

----------------------------------------------------------------------------
\* add_video_links.py: add_video_link_to_md on one summary file.  A content
\* is the sequence of its lines, content.split('\n'): the empty string is one
\* empty line.

Videos == 1..MaxVideos

EmptyLine == [kind |-> "empty", video |-> 0]
TextLine == [kind |-> "text", video |-> 0]
\* "**原视频文件**: [v](v)", the line of video_link, line 63.
LinkLine(v) == [kind |-> "link", video |-> v]
\* "**原视频文件**: `v`", a line with the prefix line 66 tests for.
QuotedLine(v) == [kind |-> "quoted", video |-> v]

MdLines == {EmptyLine, TextLine} \cup {LinkLine(v) : v \in Videos}
               \cup {QuotedLine(v) : v \in Videos}

MdContents == UNION {[1..n -> MdLines] : n \in 1..MaxLines}

\* a + b for a string a that ends with a newline: its last line is empty.
Cat(a, b) == SubSeq(a, 1, Len(a) - 1) \o b

\* video_link, line 63: the line and "\n\n".
video_link(v) == <<LinkLine(v), EmptyLine, EmptyLine>>

\* content.startswith("**原视频文件**: `"), line 66.
HasLink(content) == content[1].kind = "quoted"

\* new_content, lines 66-76: video_link[:-1] + lines[1] when the content has
\* a second line, video_link + lines[0] when it has not, video_link + content
\* when the prefix is not found.
new_content(content, v) ==
    IF HasLink(content)
    THEN IF Len(content) > 1
         THEN Cat(<<LinkLine(v), EmptyLine>>, Tail(content))
         ELSE Cat(video_link(v), <<content[1]>>)
    ELSE Cat(video_link(v), content)

\* The summarizer has written NNN_summary.md.
WriteSummary ==
    /\ md_file = <<>>
    /\ md_file' \in MdContents
    /\ link_log' = <<>>
    /\ UNCHANGED <<pipevars, batchvars, poolvars, itemvars, formatvars, scanvars,
                   retryvars>>

\* process_md_files lines 136-152 calls add_video_link_to_md(md_file,
\* video_path), lines 55-87: the file is rewritten and True is returned; when
\* reading or opening it raises it is left as it was and False is returned;
\* when the write raises after open(.., 'w') the file is left empty.
AddVideoLink(v) ==
    /\ md_file # <<>>
    /\ Len(link_log) < MaxCalls
    /\ \E outcome \in {"written", "not opened", "not written"} :
          /\ md_file' = CASE outcome = "written" -> new_content(md_file, v)
                          [] outcome = "not opened" -> md_file
                          [] outcome = "not written" -> <<EmptyLine>>
          /\ link_log' = Append(link_log, [video_path |-> v,
                                           success |-> outcome = "written",
                                           content |-> md_file'])
    /\ UNCHANGED <<pipevars, batchvars, poolvars, itemvars, formatvars, scanvars,
                   retryvars>>

InitLink ==
    /\ Init
    /\ inputDir = <<>>

NextLink ==
    \/ WriteSummary
    \/ \E v \in Videos : AddVideoLink(v)

SpecLink == InitLink /\ [][NextLink]_vars

----------------------------------------------------------------------------
\* audio_summarizer/text_summarizer.py: process_file, called up to MaxProcessed
\* times on the transcripts 1..MaxFiles (process_files_parallel of one run,
\* then of the next).

Idle(n, num) == [pc |-> "idle", n |-> n, num |-> num, attempt |-> 0, calls |-> 0,
                 failures |-> 0, ret |-> FALSE]

\* return True / return False.
Returns(p, value) == [p EXCEPT !.pc = "returned", !.ret = value]

\* Lines 116-124: the call, and the test output_path.exists().
ProcessFile ==
    /\ proc = NoProc \/ (proc.pc = "returned" /\ proc.n < MaxProcessed)
    /\ LET n == IF proc = NoProc THEN 1 ELSE proc.n + 1
       IN \E num \in 1..MaxFiles :
             proc' = IF summary_file[num] # <<>>
                     THEN Returns(Idle(n, num), TRUE)
                     ELSE [Idle(n, num) EXCEPT !.pc = "entered"]
    /\ UNCHANGED summary_file
    /\ UNCHANGED <<pipevars, batchvars, poolvars, itemvars, formatvars, scanvars,
                   linkvars>>

\* Lines 126-135: the transcript is read and the client created, or one of
\* them raises and line 158 returns False.
ReadTranscript ==
    /\ proc # NoProc
    /\ proc.pc = "entered"
    /\ \E readOk \in BOOLEAN :
          proc' = IF readOk THEN [proc EXCEPT !.pc = "attempt"]
                  ELSE Returns(proc, FALSE)
    /\ UNCHANGED summary_file
    /\ UNCHANGED <<pipevars, batchvars, poolvars, itemvars, formatvars, scanvars,
                   linkvars>>

\* Lines 150-156: the attempt raised; the loop goes on unless it was the
\* last one, then the exception reaches line 158.
Retry(p) ==
    IF p.attempt < retry_count - 1
    THEN [p EXCEPT !.attempt = p.attempt + 1, !.failures = p.failures + 1]
    ELSE Returns([p EXCEPT !.failures = p.failures + 1], FALSE)

\* One turn of "for attempt in range(retry_count)", lines 138-156: the
\* service is called; when it answers, the summary is written to output_path.
\* open(output_path, 'w') may raise, and so may f.write(summary) after the
\* file was created (the answer holds no text, the disk is full), which
\* leaves the file without the summary.
Attempt ==
    /\ proc # NoProc
    /\ proc.pc = "attempt"
    /\ LET called == [proc EXCEPT !.calls = proc.calls + 1]
       IN \E outcome \in {"service raises", "written", "open raises", "write raises"} :
             /\ proc' = IF outcome = "written"
                        THEN Returns(called, TRUE) ELSE Retry(called)
             /\ summary_file' =
                   CASE outcome = "written" ->
                           [summary_file EXCEPT ![proc.num] = <<"summary">>]
                     [] outcome = "write raises" ->
                           [summary_file EXCEPT ![proc.num] = <<"">>]
                     [] OTHER -> summary_file
    /\ UNCHANGED <<pipevars, batchvars, poolvars, itemvars, formatvars, scanvars,
                   linkvars>>

InitRetry ==
    /\ Init
    /\ inputDir = <<>>

NextRetry ==
    \/ ProcessFile
    \/ ReadTranscript
    \/ Attempt

SpecRetry == InitRetry /\ [][NextRetry]_vars

----------------------------------------------------------------------------
\* Properties.

Invoked(n) == hist[n] \in {"running", "ok", "copied"}

InRun == pc # "idle"

\* C1: each of ExtractAudio, Upload, Transcribe and Summarize writes an output
\* list with exactly as many entries as the input list file it loaded, empty
\* entries included.
C1_LengthPreserved ==
    [][(InRun /\ step \in STEP_EXTRACT_AUDIO..STEP_SUMMARIZE
          /\ files'[OutputJson(step)] # files[OutputJson(step)])
       => Len(files'[OutputJson(step)][1]) = Len(FileList(InputJson(step)))]_vars

\* C2: index stability: a non-empty value at index i of a stage's output list,
\* and the artifact the stage numbers i+1, was derived from the Discover item
\* at index i.
C2_IndexStability ==
    /\ \A f \in FileNames : \A i \in 1..Len(FileList(f)) :
          Prov(FileList(f)[i]) # 0 =>
              i <= Len(ScanResult) /\ Prov(FileList(f)[i]) = ScanResult[i].n
    /\ \A k \in Slots :
          /\ audioArt[k] # 0 => k <= Len(ScanResult) /\ audioArt[k] = ScanResult[k].n
          /\ ossObj[k] # 0 => k <= Len(ScanResult) /\ ossObj[k] = ScanResult[k].n
          /\ textArt[k] # 0 => k <= Len(ScanResult) /\ textArt[k] = ScanResult[k].n
          /\ summaryArt[k].prov # 0 =>
                 k <= Len(ScanResult) /\ summaryArt[k].prov = ScanResult[k].n

\* C3: when ExtractAudio left item i empty and another item not, Upload,
\* Transcribe and Summarize each return success with "" at index i of the list
\* they wrote.
C3_EmptyPropagates ==
    \A i \in Slots :
        (/\ pc = "returned"
         /\ ok
         /\ step \in STEP_UPLOAD_OSS..STEP_SUMMARIZE
         /\ i <= Len(FileList("audios"))
         /\ FileList("audios")[i] = Empty
         /\ \E j \in 1..Len(FileList("audios")) : FileList("audios")[j] # Empty)
        => /\ i <= Len(FileList(OutputJson(step)))
           /\ FileList(OutputJson(step))[i] = Empty

\* C4: the persisted checkpoint is raised to n only in the step that follows a
\* successful return of stage n; the step that starts stage n and every step
\* taken while it is running, a crash included, leave the checkpoint as it is
\* and below n, so that stage n runs again on restart.
C4_CheckpointAfterSuccess ==
    [][/\ (Persisted' # Persisted /\ Persisted' \in Stages)
            => (pc = "returned" /\ ok /\ step = Persisted')
       /\ (pc = "running" \/ pc' = "running")
            => (ckptFile' = ckptFile /\ step' = step /\ Persisted' < step)]_vars

\* A run was killed while stage n >= 2 was running: the checkpoint is n - 1.
C4_Witness ==
    /\ pc = "idle"
    /\ exitStatus = "killed in stage"
    /\ step \in STEP_EXTRACT_AUDIO..STEP_SUMMARIZE
    /\ Persisted = step - 1

\* C5: when a stage processor returned failure the run ends with a non-zero
\* exit status, no later stage runs, and the persisted checkpoint keeps the
\* value it had before the stage, which is below the stage's number.
C5_FailureHalts ==
    [][(pc = "returned" /\ ~ok)
       => /\ pc' = "idle"
          /\ exitStatus' \in {"1", "killed"}
          /\ ckptFile' = ckptFile
          /\ Persisted' = step - 1]_vars

\* A run ended with exit(1) at stage n >= 2.
C5_Witness ==
    /\ pc = "idle"
    /\ exitStatus = "1"
    /\ step \in STEP_EXTRACT_AUDIO..STEP_SUMMARIZE
    /\ Persisted = step - 1

\* The first stage this run has worked on is n.
FirstRun(n) == Invoked(n) /\ \A m \in Stages : m < n => ~Invoked(m)

\* C6 as stated: started with persisted checkpoint k in 1..5, the run invokes
\* none of the stages 1..k and the first stage it runs is k+1.
C6_Original ==
    (InRun /\ readCkpt \in Stages)
    => \A n \in Stages :
          /\ Invoked(n) => n > readCkpt
          /\ FirstRun(n) => n = readCkpt + 1

\* C6 as amended: the same when the intermediate directory exists at the
\* start; when it does not, the run starts again from stage 1.
C6_Resumability ==
    (InRun /\ readCkpt \in Stages)
    => \A n \in Stages :
          /\ hadInterm => (Invoked(n) => n > readCkpt)
          /\ hadInterm => (FirstRun(n) => n = readCkpt + 1)
          /\ ~hadInterm => (FirstRun(n) => n = STEP_FIND_FILES)

\* Started with checkpoint 3 and the intermediate files, the run is in
\* Transcribe and has run nothing else.
C6_Witness ==
    /\ pc = "running"
    /\ readCkpt = STEP_UPLOAD_OSS
    /\ hadInterm
    /\ step = STEP_TRANSCRIBE
    /\ FirstRun(STEP_TRANSCRIBE)

\* C7: the list a running stage has loaded is the content of the file the
\* stage before it persisted: inputs.json for ExtractAudio, audios.json for
\* Upload, oss_urls.json for Transcribe, texts.json for Summarize.
C7_InputFromFile ==
    (pc = "running" /\ step # STEP_FIND_FILES)
    => /\ step = STEP_EXTRACT_AUDIO => loaded = FileList("inputs") /\ files["inputs"] # <<>>
       /\ step = STEP_UPLOAD_OSS => loaded = FileList("audios") /\ files["audios"] # <<>>
       /\ step = STEP_TRANSCRIBE => loaded = FileList("oss_urls") /\ files["oss_urls"] # <<>>
       /\ step = STEP_SUMMARIZE => loaded = FileList("texts") /\ files["texts"] # <<>>

\* After a restart with checkpoint 2 Upload works on a list with an empty entry
\* that an earlier run left in audios.json.
C7_Witness ==
    /\ pc = "running"
    /\ step = STEP_UPLOAD_OSS
    /\ readCkpt = STEP_EXTRACT_AUDIO
    /\ \E i \in 1..Len(loaded) : loaded[i] = Empty
    /\ pending = {}

\* C8 as stated: the persisted checkpoint never decreases.
C8_Original == [][Persisted' >= Persisted]_vars

\* C8 as amended: the persisted checkpoint never decreases, except that a run
\* started without the intermediate directory resets it to 0.
C8_Monotone ==
    [][Persisted' >= Persisted
       \/ (pc = "idle" /\ ~intermExists /\ Persisted' = 0)]_vars

\* A run that found checkpoint k >= 1 and no intermediate directory has reset
\* the checkpoint.
C8_Witness ==
    /\ InRun
    /\ readCkpt >= 1
    /\ ~hadInterm
    /\ Persisted = 0

\* C9 as stated: the persisted checkpoint is in 0..5.
C9_Original == Persisted \in 0..STEP_SUMMARIZE

\* C9 as amended: the persisted checkpoint is in 0..6; 6 (STEP_COMPLETE) is
\* written at the end of a run that reached the end.
C9_Range == Persisted \in 0..STEP_COMPLETE

\* A run has reached its end.
C9_Witness ==
    /\ pc = "idle"
    /\ exitStatus = "0"
    /\ Persisted = STEP_COMPLETE

\* C10: within a run a stage is started at most once and only after every
\* stage before it succeeded in this run or was skipped, so in the order 1..5;
\* the step on a stage's success adds one to the local checkpoint and to the
\* persisted one, and no other step of the run changes the local checkpoint.
C10_Ordering ==
    [][(InRun /\ pc' # "idle")
       => /\ \A n \in Stages :
                (~Invoked(n) /\ hist'[n] \in {"running", "copied"})
                => /\ hist[n] = "none"
                   /\ step = n
                   /\ \A m \in Stages : m < n => hist[m] \in {"ok", "copied", "skipped"}
                   /\ \A m \in Stages : m > n => hist[m] = "none"
          /\ (pc = "returned" /\ ok)
                => /\ checkpoint' = checkpoint + 1
                   /\ Persisted' = Persisted + 1
                   /\ checkpoint' = step
          /\ ~(pc = "returned" /\ ok)
                => /\ checkpoint' = checkpoint
                   /\ ckptFile' = ckptFile]_vars

\* An uninterrupted run from an empty output directory has completed the five
\* stages.
C10_Witness ==
    /\ pc = "seq"
    /\ step = STEP_COMPLETE
    /\ readCkpt = 0
    /\ \A n \in Stages : hist[n] = "ok"
    /\ checkpoint = STEP_SUMMARIZE
    /\ Persisted = STEP_SUMMARIZE

\* The step in which the collecting loop takes the result of one task.
ItemStep == pc = "running" /\ pc' = "running" /\ pending' # pending

\* The step in which a stage processor that ran its tasks returns.
FinishStep == pc = "running" /\ step # STEP_FIND_FILES /\ pc' = "returned"

\* The entries of the written list at the indices the stage worked on that
\* are "".
EmptySlots(list, skipped) ==
    {k \in 1..Len(list) : k \notin skipped /\ list[k] = Empty}

\* C11: in ExtractAudio, Upload and Summarize a task that failed adds one to
\* the failure counter and leaves the other tasks pending; a stage that
\* returns success has written a list in which every item that failed is ""
\* and has counted one failure for each of them, also when all of them
\* failed; a stage returns failure only without having written its list.
C11_ItemFailureCounted ==
    [][/\ (ItemStep /\ step # STEP_TRANSCRIBE)
            => \E k \in pending :
                  /\ pending' = pending \ {k}
                  /\ results'[k] = NoResult => failed_count' = failed_count + 1
                  /\ results'[k] # NoResult => failed_count' = failed_count
       /\ (FinishStep /\ ok')
            => /\ files'[OutputJson(step)] # <<>>
               /\ Len(FileList(OutputJson(step))') = Len(Tasks)
               /\ \A k \in 1..Len(Tasks) :
                     (k \notin skipped_indices /\ results[k] = NoResult)
                     => FileList(OutputJson(step))'[k] = Empty
               /\ failed_count' =
                     Cardinality(EmptySlots(FileList(OutputJson(step))', skipped_indices))
       /\ (FinishStep /\ ~ok') => files' = files]_vars

\* C12: a stage processor that returns failure without having worked on any
\* item could not load its input list (the file is missing or is not a JSON
\* list) or, every item being done already, could not write its output list;
\* a list of items that all failed in the stage before is not a reason.
C12_PerItemTolerated ==
    [][(pc = "seq" /\ pc' = "returned" /\ ~ok'
          /\ step \in STEP_EXTRACT_AUDIO..STEP_SUMMARIZE)
       => \/ files[InputJson(step)] = <<>>
          \/ JsonKind(InputJson(step)) # "list"
          \/ FilterBlank(FileList(InputJson(step))) # <<>>]_vars

\* C13: the collecting loop stores the result of the task submitted for index
\* k at index k and touches no other index, whichever tasks completed before
\* it; the value is the one the worker of task k returns; the list the stage
\* writes holds at each index the result stored there.
C13_StoredByIndex ==
    [][/\ ItemStep
            => \E k \in pending :
                  /\ pending' = pending \ {k}
                  /\ \A j \in Slots \ {k} : results'[j] = results[j]
                  /\ results'[k] # NoResult =>
                        CASE step = STEP_EXTRACT_AUDIO ->
                                results'[k].val \in {Tasks[k], Entry("audio", k)}
                          [] step = STEP_UPLOAD_OSS ->
                                /\ results'[k].val = Entry("url", k)
                                /\ ossObj'[k] = Prov(Tasks[k])
                          [] OTHER -> results'[k].prov = Prov(Tasks[k])
       /\ (FinishStep /\ ok')
            => \A k \in 1..Len(Tasks) :
                  CASE step \in {STEP_EXTRACT_AUDIO, STEP_UPLOAD_OSS} ->
                          FileList(OutputJson(step))'[k] = results[k].val
                    [] step = STEP_TRANSCRIBE ->
                          (k \notin skipped_indices /\ FileList("texts")'[k] # Empty)
                          => /\ FileList("texts")'[k] = Entry("text", k)
                             /\ textArt'[k] = results[k].prov
                             /\ results[k].prov # 0
                    [] OTHER ->
                          (k \notin skipped_indices /\ FileList("summaries")'[k] # Empty)
                          => /\ FileList("summaries")'[k] = Entry("md", k)
                             /\ summaryArt'[k].prov = results[k].prov
                             /\ results[k].prov # 0]_vars

\* Upload took the result of task 2 before task 1 had completed.
C13_Witness ==
    /\ pc = "running"
    /\ step = STEP_UPLOAD_OSS
    /\ pending = {1}
    /\ results[2].val = Entry("url", 2)

\* C14: when no result had to be placed by position, every text in the
\* results of _transcribe_batch is at the index of the URL it was transcribed
\* from, in whatever order the service returned the transcriptions.
C14_BatchReassembly ==
    warnings = 0 =>
        \A i \in 1..Len(batch_results) :
            batch_results[i] # NoText => batch_results[i] = batch_urls[i]

\* The output list an earlier run of the running stage wrote for this input
\* list is on disk.
RanBefore ==
    /\ files[OutputJson(step)] # <<>>
    /\ Len(FileList(OutputJson(step))) = Len(Tasks)

\* The artifact of stage n numbered k exists and is valid.
Exists(n, k) ==
    CASE n = STEP_TRANSCRIBE -> textArt[k] # 0
      [] n = STEP_SUMMARIZE -> summaryArt[k].prov # 0
      [] OTHER -> FALSE

Parsable(f) ==
    \E i, j \in 1..Len(f) :
        /\ i <= j
        /\ \A m \in 1..Len(f) : (m < i \/ m > j) => f[m] = Blank
        /\ \A m \in i..j : f[m] \in 0..9

\* C16: a run started on a checkpoint file that is absent or does not parse
\* as an integer reads 0, writes "0" and begins with stage 1, which it does not
\* skip; every write of the checkpoint leaves the text of the one number
\* written, whatever the file held.
C16_CheckpointIO ==
    [][/\ (pc = "idle" /\ ~Parsable(ckptFile))
            => /\ ckptFile' = <<0>>
               /\ pc' = "seq" => (checkpoint' = 0 /\ readCkpt' = 0 /\ step' = STEP_FIND_FILES)
       /\ (pc' # "idle" /\ ~Parsable(readText'))
            => /\ hist'[STEP_FIND_FILES] # "skipped"
               /\ \A n \in Stages : (hist'[n] # "none" /\ n # STEP_FIND_FILES)
                                        => hist'[STEP_FIND_FILES] = "ok"
       /\ ckptFile' # ckptFile
            => \/ pc = "idle" /\ ckptFile' = <<0>>
               \/ pc = "returned" /\ ckptFile' = <<checkpoint + 1>>
               \/ pc = "seq" /\ ckptFile' = <<STEP_COMPLETE>>]_vars

\* A run that found a checkpoint file with a character that is no digit is in
\* stage 1 with checkpoint 0.
C16_Witness ==
    /\ pc = "running"
    /\ step = STEP_FIND_FILES
    /\ \E i \in 1..Len(readText) : readText[i] = Junk
    /\ checkpoint = 0
    /\ ckptFile = <<0>>

\* C17: a call of summarize() with the eight documented keys and an input
\* directory that exists is not rejected: it becomes a run.
C17_DocumentedConfigAccepted ==
    (call.config = DocumentedKeys /\ call.input_dir) => pc # "idle"

\* C18: the origin link of a summary names the Discover item the summary was
\* made from.
C18_OriginLink ==
    \A k \in Slots :
        summaryArt[k].prov # 0 => summaryArt[k].link = summaryArt[k].prov

\* C19: a stage that returned success has its output list file on disk.
C19_WriteFailureFails ==
    (pc = "returned" /\ ok /\ step \in Stages) => files[OutputJson(step)] # <<>>

\* C20: a stage whose input file is malformed JSON or holds a value that is
\* not a list returns failure without working on anything.
C20_LoadFails ==
    [][(pc = "seq" /\ pc' # "seq"
          /\ step \in STEP_EXTRACT_AUDIO..STEP_SUMMARIZE
          /\ files[InputJson(step)] # <<>>
          /\ JsonKind(InputJson(step)) # "list")
       => (pc' = "returned" /\ ~ok')]_vars

\* C21: the splitter returns at least min(num_processes, n) batches for n
\* URLs.
C21_BatchPerWorker ==
    url_batches # <<>> =>
        Len(url_batches) >= Min(num_processes, Len(urls_to_transcribe))

\* C22: every batch the splitter returns holds at least 1 and at most 100
\* URLs, and the batches are the URL list cut in consecutive pieces.
C22_BatchSizeBounds ==
    url_batches # <<>> =>
        /\ \A b \in 1..Len(url_batches) :
              /\ Len(url_batches[b]) >= 1
              /\ Len(url_batches[b]) <= 100
        /\ \A i \in 1..Len(urls_to_transcribe) :
              \E b \in 1..Len(url_batches) :
                 \E j \in 1..Len(url_batches[b]) : url_batches[b][j] = i

\* More URLs than one batch may hold for each process were split.
C22_Witness ==
    /\ url_batches # <<>>
    /\ Len(urls_to_transcribe) > 100 * num_processes
    /\ \E b \in 1..Len(url_batches) : Len(url_batches[b]) = 100

\* C23: no more batch jobs run at a time than num_processes.
C23_PoolBound ==
    Cardinality(running) <= num_processes

\* A transcription carries the identity of a submitted URL: its file_url has
\* the file name of the URL, or is the URL.
SameFile(t, u) ==
    /\ t.file_url # NoText
    /\ (t.file_url.name = u.name \/ t.file_url = u)

\* The call ended in the except branch: every result is "".
Raised ==
    /\ response' = <<>>
    /\ warnings' = warnings
    /\ \A i \in 1..Len(batch_results') : batch_results'[i] = NoText

\* C29: the result of a transcription that succeeded is stored at an index
\* whose URL it identifies when there is one, without a warning; it goes to the
\* first slot still empty, with one warning, only when it identifies no
\* submitted URL.
C29_PositionalFallback ==
    [][(response # <<>> /\ response' = Tail(response))
       => LET t == Head(response)
              ids == {i \in 1..Len(batch_urls) : SameFile(t, batch_urls[i])}
          IN (t.subtask_status = "SUCCEEDED" /\ ~Raised)
             => /\ ids # {}
                   => /\ warnings' = warnings
                      /\ \E i \in ids :
                            batch_results' = [batch_results EXCEPT ![i] = t.of]
                /\ ids = {}
                   => /\ warnings' = warnings + 1
                      /\ batch_results' =
                            Put(batch_results, FirstEmpty(batch_results), t.of)]_vars

\* One result of the batch was matched by its file_url and another one, that
\* had none, was placed by position.
C29_Witness ==
    /\ Len(batch_urls) >= 2
    /\ response = <<>>
    /\ warnings = 1
    /\ \A i \in 1..Len(batch_results) : batch_results[i] # NoText

\* C24: a stage processor writes its output list and returns only when no
\* task it submitted is still pending, and summarize() writes the checkpoint
\* or goes on to the next stage only after the processor has returned.
C24_RunsToCompletion ==
    [][/\ (step \in STEP_EXTRACT_AUDIO..STEP_SUMMARIZE /\ pc = "running"
             /\ (pc' = "returned" \/ files' # files))
          => pending = {}
       /\ (pc # "idle" /\ ckptFile' # ckptFile)
          => (pc # "running" /\ pending = {})
       /\ (pc # "idle" /\ pc' # "idle" /\ step' # step)
          => (pc # "running" /\ pending = {})]_vars

\* Upload has returned after two tasks, of which the first failed, and the
\* checkpoint still is the one of the stage before.
C24_Witness ==
    /\ pc = "returned"
    /\ ok
    /\ step = STEP_UPLOAD_OSS
    /\ hist[step] = "running"
    /\ Len(FileList("oss_urls")) = 2
    /\ FileList("oss_urls")[1] = Empty
    /\ FileList("oss_urls")[2] # Empty
    /\ ckptFile = str(STEP_EXTRACT_AUDIO)

\* _extract_audio has looked at the input and at 00k.mp3 and has returned or
\* goes on to run ffmpeg.
CheckStep == worker.pc = "entered" /\ worker'.pc \in {"returned", "ffmpeg"}

\* 00k.mp3 exists, ffprobe gives both durations and they differ by at most 5
\* seconds.
DurationsAgree(w) ==
    /\ w.audio_exists
    /\ w.video_duration \in Durations
    /\ w.audio_duration \in Durations
    /\ w.video_duration - w.audio_duration <= 5
    /\ w.audio_duration - w.video_duration <= 5

\* C25: ExtractAudio returns the path of 00k.mp3 without running ffmpeg
\* exactly when the file exists and both durations are known and differ by at
\* most 5 seconds; Transcribe and Summarize skip an index exactly when its
\* text or summary file exists, can be read and holds a character that is not
\* whitespace, and submit the index otherwise.
C25_ReuseWhenValid ==
    [][/\ (CheckStep /\ ~worker.is_audio)
          => ((/\ worker'.pc = "returned"
               /\ worker'.ret.success
               /\ worker'.ret.path = Entry("audio", worker.idx)
               /\ worker'.ffmpeg_calls = 0)
              <=> DurationsAgree(worker))
       /\ (artifact' # artifact)
          => LET a == artifact'
                 valid == /\ a.exists
                          /\ a.readable
                          /\ \E i \in 1..Len(a.content) : a.content[i] # Blank
             IN /\ a.idx \in skipped_indices' <=> valid
                /\ a.idx \in pending' <=> ~valid
                /\ skipped_indices' \ {a.idx} = skipped_indices
                /\ pending' \ {a.idx} = pending]_vars

\* 00k.mp3 was reused with durations that differ by exactly 5 seconds.
C25_Witness ==
    /\ worker.pc = "returned"
    /\ worker.ret.message = "exists and correct"
    /\ worker.video_duration - worker.audio_duration = 5
    /\ worker.ffmpeg_calls = 0

C27_Original ==
    (worker.pc = "returned" /\ ~worker.input_exists)
    => worker.ret.message = "input audio file does not exist"

FailureMessages ==
    {"input audio file does not exist", "cannot delete the incorrect audio file",
     "verification after extraction failed", "ffmpeg error", "timeout",
     "exception"}

\* C27: a call of _extract_audio that fails returns no path and one of the
\* failure messages: the one for a missing source exactly for an audio input
\* that does not exist, the one for the validation exactly when ffmpeg
\* succeeded; a missing video fails with what ffmpeg made of it.  The task
\* then leaves "" in its slot, adds one to the failure counter and leaves the
\* other tasks and their results as they are.
C27_FailureModes ==
    [][/\ (worker.pc \in {"entered", "ffmpeg"} /\ worker'.pc = "returned"
             /\ ~worker'.ret.success)
          => /\ worker'.ret.path = Empty
             /\ worker'.ret.message \in FailureMessages
             /\ worker'.ret.message = "input audio file does not exist"
                   <=> (worker.is_audio /\ ~worker.input_exists)
             /\ worker'.ret.message = "verification after extraction failed"
                   => (worker.pc = "ffmpeg" /\ worker'.audio_exists
                         /\ worker.input_exists)
             /\ (~worker.is_audio /\ ~worker.input_exists)
                   => worker'.ret.message \in
                         {"ffmpeg error", "timeout", "exception",
                          "cannot delete the incorrect audio file"}
       /\ (worker.pc = "returned" /\ ~worker.ret.success /\ worker'.pc = "idle")
          => /\ results'[worker.idx] = NoResult
             /\ failed_count' = failed_count + 1
             /\ pending' = pending \ {worker.idx}
             /\ \A j \in Slots \ {worker.idx} : results'[j] = results[j]
       /\ (worker.pc = "returned" /\ worker.ret.success /\ worker'.pc = "idle")
          => failed_count' = failed_count]_vars

\* The first task has failed and was counted; the second one, a video that
\* does not exist, has returned the message of an ffmpeg error.
C27_Witness ==
    /\ step = STEP_EXTRACT_AUDIO
    /\ pc = "running"
    /\ failed_count = 1
    /\ pending = {2}
    /\ results[1] = NoResult
    /\ worker.pc = "returned"
    /\ worker.idx = 2
    /\ ~worker.is_audio
    /\ ~worker.input_exists
    /\ worker.ret.message = "ffmpeg error"

Spoken(transcripts) ==
    {<<t, i>> \in (1..MaxTranscripts) \X (1..MaxSentences) :
        /\ t <= Len(transcripts)
        /\ i <= Len(transcripts[t])
        /\ \E c \in 1..Len(transcripts[t][i].text) : transcripts[t][i].text[c] # Blank}

\* C30: the formatted transcript has one line for every sentence with a text
\* and no other, each with the speaker number speaker_id + 1, and its lines
\* are in non-decreasing order of the begin_time of their sentences.
C30_FormattedTranscript ==
    result_data.called =>
        /\ Len(result_str) = Cardinality(Spoken(result_data.transcripts))
        /\ \A l \in 1..Len(result_str) :
              \E s \in Spoken(result_data.transcripts) :
                 LET x == result_data.transcripts[s[1]][s[2]]
                 IN /\ result_str[l].speaker = x.speaker_id + 1
                    /\ result_str[l].begin_time = x.begin_time
        /\ \A l, m \in 1..Len(result_str) :
              l < m => result_str[l].begin_time <= result_str[m].begin_time

----------------------------------------------------------------------------
\* Discover on trees with symbolic links and denied directories.

\* The directory a path of processed_dirs leads to.
RealDir(path) == IF path = <<>> THEN 1 ELSE path[Len(path)].to

\* The directories the scan gets to through directories it may list.
RECURSIVE Listable(_, _)
Listable(t, d) ==
    /\ d \notin t.denied
    /\ d # 1 => d \notin t.skip /\ Listable(t, t.parent[d])

ScanOver == tree # NoTree /\ stack = <<>>

\* C31: the scan ends, no directory is scanned twice and no media file is
\* listed twice, whatever symbolic links the tree holds, and a directory whose
\* listing is denied costs only its own subtree: when the scan is over every
\* media file of the directories it could list is in audio_files.
C31_ScanOnce ==
    /\ \A p, q \in processed_dirs : RealDir(p) = RealDir(q) => p = q
    /\ \A i, j \in 1..Len(audio_files) :
          audio_files[i].file = audio_files[j].file => i = j
    /\ ScanOver =>
          \A d \in Dirs :
             Listable(tree, d) /\ tree.file[d] = "media"
                => \E i \in 1..Len(audio_files) : audio_files[i].file = d

----------------------------------------------------------------------------
\* The checkpoint and the Item List files on disk.

\* C32: in an output directory only runs have written to, a persisted
\* checkpoint k >= 1 has the output Item List file of every stage
\* 1..min(k, 5) on disk, written by that stage.
C32_OutputsBehindCheckpoint ==
    intermExists /\ Persisted >= 1
       => \A n \in Stages :
             n <= Persisted => files[OutputJson(n)] # <<>>

----------------------------------------------------------------------------
\* Whose artifact an idempotent skip reuses.

\* The item the artifact numbered k of stage n was produced from.
MadeFrom(n, k) == IF n = STEP_TRANSCRIBE THEN textArt[k] ELSE summaryArt[k].prov

\* C33: when Transcribe or Summarize classifies index k as done, the
\* artifact numbered k was produced from the item its input list holds at
\* index k now: no item gets the transcript or summary of another item.
C33_SkipReusesOwnArtifact ==
    [][(/\ pc = "seq"
        /\ pc' \in {"running", "returned"}
        /\ step \in {STEP_TRANSCRIBE, STEP_SUMMARIZE}
        /\ ~LoadFails(step))
          => LET list == FilterBlank(LoadRaw(step))
             IN \A k \in AlreadyDone(step, Len(list)) :
                   MadeFrom(step, k) = Prov(list[k])]_vars

----------------------------------------------------------------------------
\* The counters of a stage.

\* The entries of a list that are not "".
Filled(list) == Cardinality({k \in 1..Len(list) : NonBlank(list[k])})

\* C34: when a stage that processed its items ends, the three counters add
\* up to the number of items of its list, and the list it has written has as
\* many entries that are not "" as success_count + skipped_count.
C34_CountersAddUp ==
    [][FinishStep =>
          /\ success_count' + failed_count' + skipped_count' = Len(Tasks)
          /\ ok' => Filled(FileList(OutputJson(step))') =
                       success_count' + skipped_count']_vars

----------------------------------------------------------------------------
\* Results of one batch placed by position.

\* The URLs of the batch differ in their file names.
DistinctNames ==
    \A i, j \in 1..Len(batch_urls) : batch_urls[i].name = batch_urls[j].name => i = j

\* C35: once a result has been placed by position at an index, no result
\* handled later in the same call takes its place: a call that did not raise
\* loses no result that succeeded.  The URLs of the batch have file names of
\* their own, so that each identified result has one index.
C35_PlacedResultKept ==
    [][(response # <<>> /\ ~Raised /\ DistinctNames)
          => \A i \in placed : batch_results'[i] = batch_results[i]]_vars

----------------------------------------------------------------------------
\* The batches of Transcribe and the way back to the original indices.

RECURSIVE Flatten(_)
Flatten(q) == IF q = <<>> THEN <<>> ELSE Head(q) \o Flatten(Tail(q))

PoolDone == url_batches # <<>> /\ completed = 1..Len(url_batches)

\* C36: the batches, one after the other, are the URLs to transcribe: the
\* same URLs in the same order, each once.  When every batch has completed
\* there is one result per URL, the i-th result is the transcript of the
\* i-th URL left to transcribe or "", and it is stored under the original
\* index of that URL.
C36_BatchesPartitionUrls ==
    url_batches # <<>> =>
        /\ Flatten(url_batches) = urls_to_transcribe
        /\ PoolDone =>
              /\ Len(transcribed_results) = Len(urls_to_transcribe)
              /\ \A i \in 1..Len(filtered_urls) :
                    /\ transcribed_results[i] \in {filtered_urls[i][2], NoTranscript}
                    /\ index_to_result[filtered_urls[i][1]] = transcribed_results[i]

\* Three batches have completed in another order than that of their indices,
\* the second one failed, every other URL had been skipped: the transcript of
\* the last URL is stored under its original index.
C36_Witness ==
    /\ PoolDone
    /\ Len(url_batches) = 3
    /\ filtered_urls[1][1] = 2
    /\ result_dict[2][1] = NoTranscript
    /\ LET n == Len(filtered_urls)
       IN index_to_result[2 * n] = n

----------------------------------------------------------------------------
\* A run on the output directory of a completed run.

\* The run started from the checkpoint of a completed run, with the
\* intermediate directory that run left.
Rerun == InRun /\ readCkpt = STEP_COMPLETE /\ hadInterm

\* summarize() is called on the output directory of a completed run.
CalledAgain ==
    /\ pc = "idle"
    /\ Persisted = STEP_COMPLETE
    /\ intermExists
    /\ intermExists'

\* C37: called on the output directory a completed run left, summarize()
\* invokes no stage processor, changes no Item List file and no artifact, and
\* the checkpoint on disk reads 6 at every moment of that run and after it.
C37_CompletedRunIsNoOp ==
    [][(CalledAgain \/ Rerun)
          => /\ files' = files
             /\ arts' = arts
             /\ Persisted' = STEP_COMPLETE
             /\ \A n \in Stages : ~Invoked(n)']_vars

\* Such a run has gone past the five stages and skipped each.
C37_Witness ==
    /\ Rerun
    /\ pc = "seq"
    /\ step = STEP_COMPLETE
    /\ \A n \in Stages : hist[n] = "skipped"
    /\ Persisted = STEP_COMPLETE

----------------------------------------------------------------------------
\* add_video_link_to_md applied again.

\* C38: two successive calls of add_video_link_to_md on one file with the
\* same video path, both successful, leave the content the first one left:
\* the link line is not added a second time.
C38_LinkAddedOnce ==
    \A i \in 1..(Len(link_log) - 1) :
       (/\ link_log[i].success
        /\ link_log[i + 1].success
        /\ link_log[i + 1].video_path = link_log[i].video_path)
          => link_log[i + 1].content = link_log[i].content

----------------------------------------------------------------------------
\* The retries of process_file.

\* A step of a call of process_file that is in progress or starts.
InCall == proc' # NoProc

\* C39: a call of process_file calls the service at most retry_count times;
\* it goes on to another attempt only after one that failed and returns True
\* at the first that succeeded; the summary file is written only by an
\* attempt that succeeded; when the file exists at the call, True is returned
\* without a call of the service; False is returned only when every attempt
\* failed.
C39_RetryDiscipline ==
    [][InCall =>
          /\ proc'.calls <= retry_count
          /\ proc'.calls <= proc'.failures + 1
          /\ (proc'.pc = "returned" /\ proc'.ret /\ proc'.calls > 0)
                => proc'.calls = proc'.failures + 1
          /\ summary_file' # summary_file
                => proc'.pc = "returned" /\ proc'.ret
          /\ (proc'.n # (IF proc = NoProc THEN 0 ELSE proc.n)
                /\ summary_file[proc'.num] # <<>>)
                => proc'.pc = "returned" /\ proc'.ret /\ proc'.calls = 0
          /\ (proc'.pc = "returned" /\ ~proc'.ret)
                => proc'.failures = proc'.calls]_vars

====
